---- MODULE Spec2Model ----
(***************************************************************************)
(* Nural+ Extractor: router, normalizer, upload endpoint and PDF           *)
(* extractors, modelled from the TypeScript sources.                       *)
(*                                                                         *)
(* Text is a sequence of UTF-16 code units (naturals), as a JavaScript     *)
(* string is.  The empty string is << >>.  Names of files, MIME types and  *)
(* extractors are TLA+ strings: the program only compares them.            *)
(***************************************************************************)
EXTENDS Naturals, Integers, Sequences, FiniteSets, TLC

VARIABLES
    rawText,        \* SpecText: the string handed to normalizeText
    normalized,     \* SpecText: normalizeText(rawText), once computed
    renormalized,   \* SpecText: normalizeText of that result
    uuidCount,      \* number of uuidv4() values handed out so far
    rawDoc,         \* SpecNormalize: the document handed to normalizeDocument
    normDoc,        \* SpecNormalize: its normalization
    renormDoc,      \* SpecNormalize: the normalization of normDoc
    extractors,     \* the router's registry, in registration order
    routed,         \* SpecRouter: the last route call and what it gave
    processed,      \* SpecRouter: the process calls, in the order they were made
                    \* and what process gave
    given,          \* SpecExtract, SpecImages: the buffer, the OCR provider the PDF
                    \* extractor was built with and the state of OPENAI_API_KEY
    extracted,      \* SpecExtract: which extractor ran and what its extract gave
    finished,       \* SpecExtract: the normalized document
    recognition,    \* SpecExtract: a recognize call on an OcrProvider and what it gave
    conversion,     \* SpecImages: a convertImageStreamToPng call and what it gave
    instance,       \* SpecInstance: one PdfExtractor object, its ocrProvider field
                    \* and the extract calls made on it so far
    request,        \* Spec: the upload request received by POST
    tasks,          \* Spec: the per-file tasks of the request, in file order
    processCalls,   \* Spec: the files router.process was invoked for, in call order
    response,       \* Spec: the response of POST
    lexInput,       \* SpecLexer: the content stream handed to the lexer
    lexed,          \* SpecLexer: which lexer method ran and what it gave
    ocrCall,        \* SpecOcrClient: the arguments and environment of ocrPdfPages
    ocrRun          \* SpecOcrClient: the position and locals of the ocrPdfPages call

textVars == <<rawText, normalized, renormalized>>
normVars == <<rawDoc, normDoc, renormDoc>>
routerVars == <<extractors, routed, processed>>
extractVars == <<given, extracted, finished, recognition, conversion, instance>>
postVars == <<request, tasks, processCalls, response>>
lexVars == <<lexInput, lexed>>
clientVars == <<ocrCall, ocrRun>>
vars == <<rawText, normalized, renormalized, uuidCount, rawDoc, normDoc, renormDoc,
          extractors, routed, processed, given, extracted, finished, recognition,
          conversion, instance,
          request, tasks, processCalls, response, lexInput, lexed, ocrCall, ocrRun>>

(***************************************************************************)
(* Code units the sources name.                                            *)
(***************************************************************************)
NUL == 0
TAB == 9
LF == 10
VT == 11
FF == 12
CR == 13
SP == 32
NBSP == 160
ZWSP == 8203
ZWNJ == 8204
ZWJ == 8205
BOM == 65279
LAngle == 60
RAngle == 62
Slash == 47
Comma == 44
\* Letters for sample texts.
LetterB == 98
LetterA == LetterB - 1

\* ECMAScript WhiteSpace and LineTerminator code units: what String.prototype.trim
\* strips and what the regular expression class \s matches.
JsWhiteSpace ==
    {TAB, LF, VT, FF, CR, SP, NBSP, 5760, 8232, 8233, 8239, 8287, 12288, BOM}
        \cup (8192..8202)

(***************************************************************************)
(* String primitives of the JavaScript runtime used by the sources.        *)
(***************************************************************************)
\* The least and the greatest of a non-empty set of indexes.
Min(set) == CHOOSE i \in set : \A j \in set : i <= j
Max(set) == CHOOSE i \in set : \A j \in set : i >= j

\* String.prototype.trim
trim(s) ==
    LET kept == {i \in 1..Len(s) : s[i] \notin JsWhiteSpace}
    IN  IF kept = {} THEN << >> ELSE SubSeq(s, Min(kept), Max(kept))

\* s.replace(/[set]/g, "")
RemoveUnits(s, set) == SelectSeq(s, LAMBDA c : c \notin set)

\* s.replace(/[set]/g, String.fromCharCode(to))
MapUnits(s, set, to) == [i \in 1..Len(s) |-> IF s[i] \in set THEN to ELSE s[i]]

\* s.replace(/([^\n])\n([^\n])/g, "$1 $2"): matches are found left to right and do
\* not overlap, so the unit that closes one match cannot open the next.
RECURSIVE MergeSingleBreaksFrom(_, _)
MergeSingleBreaksFrom(s, i) ==
    LET matches == {j \in i..(Len(s) - 2) : s[j] # LF /\ s[j + 1] = LF /\ s[j + 2] # LF}
    IN  IF matches = {} THEN SubSeq(s, i, Len(s))
        ELSE LET j == Min(matches)
             IN  SubSeq(s, i, j - 1) \o <<s[j], SP, s[j + 2]>>
                    \o MergeSingleBreaksFrom(s, j + 3)

MergeSingleBreaks(s) == MergeSingleBreaksFrom(s, 1)

\* The end (exclusive) of the run of units of `set` that starts at i.
RunEnd(s, i, set) ==
    LET stops == {j \in i..Len(s) : s[j] \notin set}
    IN  IF i > Len(s) THEN i ELSE IF stops = {} THEN Len(s) + 1 ELSE Min(stops)

\* s.replace(/[set]{min,}/g, by): every maximal run of at least `min` units of
\* `set` becomes `by`; shorter runs stay.  i is never inside a run.
RECURSIVE ReplaceRunsFrom(_, _, _, _, _)
ReplaceRunsFrom(s, i, set, min, by) ==
    LET starts == {j \in i..Len(s) : /\ s[j] \in set
                                     /\ (j = i \/ s[j - 1] \notin set)
                                     /\ RunEnd(s, j, set) - j >= min}
    IN  IF starts = {} THEN SubSeq(s, i, Len(s))
        ELSE LET j == Min(starts)
             IN  SubSeq(s, i, j - 1) \o by
                    \o ReplaceRunsFrom(s, RunEnd(s, j, set), set, min, by)

ReplaceRuns(s, set, min, by) == ReplaceRunsFrom(s, 1, set, min, by)

\* The index of the first `sep` at or after i, or Len(s) + 1.
NextUnit(s, i, sep) ==
    LET hits == {j \in i..Len(s) : s[j] = sep}
    IN  IF hits = {} THEN Len(s) + 1 ELSE Min(hits)

\* s.split(String.fromCharCode(sep)): always at least one piece.
RECURSIVE SplitFrom(_, _, _)
SplitFrom(s, i, sep) ==
    LET e == NextUnit(s, i, sep)
    IN  IF e > Len(s) THEN <<SubSeq(s, i, Len(s))>>
        ELSE <<SubSeq(s, i, e - 1)>> \o SplitFrom(s, e + 1, sep)

split(s, sep) == SplitFrom(s, 1, sep)

\* pieces.join(sep), sep a string
RECURSIVE join(_, _)
join(pieces, sep) ==
    IF Len(pieces) = 0 THEN << >>
    ELSE IF Len(pieces) = 1 THEN pieces[1]
    ELSE pieces[1] \o sep \o join(Tail(pieces), sep)

\* array.map(f)
Map(seq, f(_)) == [i \in 1..Len(seq) |-> f(seq[i])]

\* A value worked out once and then used under a name: const name = value; Body.
Let(value, Body(_)) == Body(value)

(***************************************************************************)
(* normalize.ts                                                            *)
(***************************************************************************)
normalizeText(raw) ==
    LET s1 == RemoveUnits(raw, {NUL, FF})
        s2 == MapUnits(s1, {NBSP, ZWSP, ZWNJ, ZWJ, BOM}, SP)
        s3 == MergeSingleBreaks(s2)
        s4 == ReplaceRuns(s3, {LF}, 3, <<LF, LF>>)
        s5 == ReplaceRuns(s4, {SP, TAB}, 1, <<SP>>)
        s6 == join(Map(split(s5, LF), trim), <<LF>>)
    IN  trim(s6)

\* uuidv4(): the next value never handed out before; `used` values are out already.
\* The empty string "" is << >>, so an id is empty or one fresh value.
uuidv4(used) == <<used + 1>>

\* A ContentChunk field that is optional and absent.
NoPage == 0
NoSection == << >>

\* normalizeChunks without its filter of empty chunks.
normalizeChunks_KeepEmpty(chunks, used) ==
    LET cleaned == Map(chunks, LAMBDA chunk : [chunk EXCEPT !.text = normalizeText(chunk.text)])
    IN  [i \in 1..Len(cleaned) |-> [cleaned[i] EXCEPT !.id = uuidv4(used + i - 1)]]

\* normalizeChunks with one uuidv4() for all the chunks of a call.
normalizeChunks_SharedId(chunks, used) ==
    LET cleaned == Map(chunks, LAMBDA chunk : [chunk EXCEPT !.text = normalizeText(chunk.text)])
        kept == SelectSeq(cleaned, LAMBDA chunk : Len(chunk.text) > 0)
    IN  [i \in 1..Len(kept) |-> [kept[i] EXCEPT !.id = uuidv4(used)]]

normalizeChunks(chunks, used) ==
    LET cleaned == Map(chunks, LAMBDA chunk : [chunk EXCEPT !.text = normalizeText(chunk.text)])
        kept == SelectSeq(cleaned, LAMBDA chunk : Len(chunk.text) > 0)
    IN  [i \in 1..Len(kept) |-> [kept[i] EXCEPT !.id = uuidv4(used + i - 1)]]

\* normalizeDocument that always draws a new documentId.
normalizeDocument_FreshId(doc, used) ==
    [doc EXCEPT !.documentId = uuidv4(used),
                !.chunks = normalizeChunks(doc.chunks, used + 1)]

\* The object literal evaluates documentId before chunks: a missing documentId
\* takes the first fresh value, the chunks the following ones.
normalizeDocument(doc, used) ==
    LET needsId == doc.documentId = << >>
        afterId == IF needsId THEN used + 1 ELSE used
    IN  [doc EXCEPT !.documentId = IF needsId THEN uuidv4(used) ELSE doc.documentId,
                    !.chunks = normalizeChunks(doc.chunks, afterId)]

\* How many uuidv4() calls normalizeDocument(doc, _) makes.
UuidsOfNormalize(doc) ==
    (IF doc.documentId = << >> THEN 1 ELSE 0)
        + Len(SelectSeq(doc.chunks, LAMBDA chunk : Len(normalizeText(chunk.text)) > 0))

(***************************************************************************)
(* More string primitives, used by the extractors.                         *)
(***************************************************************************)
\* s.split(/\n{2,}/): the separators are the maximal runs of two or more line
\* feeds; a single line feed stays inside its piece.
RECURSIVE SplitParagraphsFrom(_, _)
SplitParagraphsFrom(s, from) ==
    LET starts == {j \in from..Len(s) : /\ s[j] = LF
                                        /\ (j = from \/ s[j - 1] # LF)
                                        /\ RunEnd(s, j, {LF}) - j >= 2}
    IN  IF starts = {} THEN <<SubSeq(s, from, Len(s))>>
        ELSE LET j == Min(starts)
             IN  <<SubSeq(s, from, j - 1)>> \o SplitParagraphsFrom(s, RunEnd(s, j, {LF}))

SplitParagraphs(s) == SplitParagraphsFrom(s, 1)

\* String.prototype.toUpperCase maps every code point by the Unicode default case
\* conversion (UnicodeData.txt and the unconditional rules of SpecialCasing.txt,
\* Unicode 17), whatever the locale.  A row <<first, last, step, delta>> of
\* UpperRanges says: each code point first, first + step, ..., last has the one
\* upper-case code point at distance delta.  Basic Latin is a-z only.
UpperRanges ==
  <<
     <<181, 181, 1, 743>>, <<224, 246, 1, -32>>, <<248, 254, 1, -32>>, <<255, 255, 1, 121>>,
     <<257, 303, 2, -1>>, <<305, 305, 1, -232>>, <<307, 311, 2, -1>>, <<314, 328, 2, -1>>,
     <<331, 375, 2, -1>>, <<378, 382, 2, -1>>, <<383, 383, 1, -300>>, <<384, 384, 1, 195>>,
     <<387, 389, 2, -1>>, <<392, 392, 1, -1>>, <<396, 396, 1, -1>>, <<402, 402, 1, -1>>,
     <<405, 405, 1, 97>>, <<409, 409, 1, -1>>, <<410, 410, 1, 163>>, <<411, 411, 1, 42561>>,
     <<414, 414, 1, 130>>, <<417, 421, 2, -1>>, <<424, 424, 1, -1>>, <<429, 429, 1, -1>>,
     <<432, 432, 1, -1>>, <<436, 438, 2, -1>>, <<441, 441, 1, -1>>, <<445, 445, 1, -1>>,
     <<447, 447, 1, 56>>, <<453, 453, 1, -1>>, <<454, 454, 1, -2>>, <<456, 456, 1, -1>>,
     <<457, 457, 1, -2>>, <<459, 459, 1, -1>>, <<460, 460, 1, -2>>, <<462, 476, 2, -1>>,
     <<477, 477, 1, -79>>, <<479, 495, 2, -1>>, <<498, 498, 1, -1>>, <<499, 499, 1, -2>>,
     <<501, 501, 1, -1>>, <<505, 543, 2, -1>>, <<547, 563, 2, -1>>, <<572, 572, 1, -1>>,
     <<575, 576, 1, 10815>>, <<578, 578, 1, -1>>, <<583, 591, 2, -1>>, <<592, 592, 1, 10783>>,
     <<593, 593, 1, 10780>>, <<594, 594, 1, 10782>>, <<595, 595, 1, -210>>,
     <<596, 596, 1, -206>>, <<598, 599, 1, -205>>, <<601, 601, 1, -202>>,
     <<603, 603, 1, -203>>, <<604, 604, 1, 42319>>, <<608, 608, 1, -205>>,
     <<609, 609, 1, 42315>>, <<611, 611, 1, -207>>, <<612, 612, 1, 42343>>,
     <<613, 613, 1, 42280>>, <<614, 614, 1, 42308>>, <<616, 616, 1, -209>>,
     <<617, 617, 1, -211>>, <<618, 618, 1, 42308>>, <<619, 619, 1, 10743>>,
     <<620, 620, 1, 42305>>, <<623, 623, 1, -211>>, <<625, 625, 1, 10749>>,
     <<626, 626, 1, -213>>, <<629, 629, 1, -214>>, <<637, 637, 1, 10727>>,
     <<640, 640, 1, -218>>, <<642, 642, 1, 42307>>, <<643, 643, 1, -218>>,
     <<647, 647, 1, 42282>>, <<648, 648, 1, -218>>, <<649, 649, 1, -69>>,
     <<650, 651, 1, -217>>, <<652, 652, 1, -71>>, <<658, 658, 1, -219>>,
     <<669, 669, 1, 42261>>, <<670, 670, 1, 42258>>, <<837, 837, 1, 84>>, <<881, 883, 2, -1>>,
     <<887, 887, 1, -1>>, <<891, 893, 1, 130>>, <<940, 940, 1, -38>>, <<941, 943, 1, -37>>,
     <<945, 961, 1, -32>>, <<962, 962, 1, -31>>, <<963, 971, 1, -32>>, <<972, 972, 1, -64>>,
     <<973, 974, 1, -63>>, <<976, 976, 1, -62>>, <<977, 977, 1, -57>>, <<981, 981, 1, -47>>,
     <<982, 982, 1, -54>>, <<983, 983, 1, -8>>, <<985, 1007, 2, -1>>, <<1008, 1008, 1, -86>>,
     <<1009, 1009, 1, -80>>, <<1010, 1010, 1, 7>>, <<1011, 1011, 1, -116>>,
     <<1013, 1013, 1, -96>>, <<1016, 1016, 1, -1>>, <<1019, 1019, 1, -1>>,
     <<1072, 1103, 1, -32>>, <<1104, 1119, 1, -80>>, <<1121, 1153, 2, -1>>,
     <<1163, 1215, 2, -1>>, <<1218, 1230, 2, -1>>, <<1231, 1231, 1, -15>>,
     <<1233, 1327, 2, -1>>, <<1377, 1414, 1, -48>>, <<4304, 4346, 1, 3008>>,
     <<4349, 4351, 1, 3008>>, <<5112, 5117, 1, -8>>, <<7296, 7296, 1, -6254>>,
     <<7297, 7297, 1, -6253>>, <<7298, 7298, 1, -6244>>, <<7299, 7300, 1, -6242>>,
     <<7301, 7301, 1, -6243>>, <<7302, 7302, 1, -6236>>, <<7303, 7303, 1, -6181>>,
     <<7304, 7304, 1, 35266>>, <<7306, 7306, 1, -1>>, <<7545, 7545, 1, 35332>>,
     <<7549, 7549, 1, 3814>>, <<7566, 7566, 1, 35384>>, <<7681, 7829, 2, -1>>,
     <<7835, 7835, 1, -59>>, <<7841, 7935, 2, -1>>, <<7936, 7943, 1, 8>>, <<7952, 7957, 1, 8>>,
     <<7968, 7975, 1, 8>>, <<7984, 7991, 1, 8>>, <<8000, 8005, 1, 8>>, <<8017, 8023, 2, 8>>,
     <<8032, 8039, 1, 8>>, <<8048, 8049, 1, 74>>, <<8050, 8053, 1, 86>>,
     <<8054, 8055, 1, 100>>, <<8056, 8057, 1, 128>>, <<8058, 8059, 1, 112>>,
     <<8060, 8061, 1, 126>>, <<8112, 8113, 1, 8>>, <<8126, 8126, 1, -7205>>,
     <<8144, 8145, 1, 8>>, <<8160, 8161, 1, 8>>, <<8165, 8165, 1, 7>>, <<8526, 8526, 1, -28>>,
     <<8560, 8575, 1, -16>>, <<8580, 8580, 1, -1>>, <<9424, 9449, 1, -26>>,
     <<11312, 11359, 1, -48>>, <<11361, 11361, 1, -1>>, <<11365, 11365, 1, -10795>>,
     <<11366, 11366, 1, -10792>>, <<11368, 11372, 2, -1>>, <<11379, 11379, 1, -1>>,
     <<11382, 11382, 1, -1>>, <<11393, 11491, 2, -1>>, <<11500, 11502, 2, -1>>,
     <<11507, 11507, 1, -1>>, <<11520, 11557, 1, -7264>>, <<11559, 11559, 1, -7264>>,
     <<11565, 11565, 1, -7264>>, <<42561, 42605, 2, -1>>, <<42625, 42651, 2, -1>>,
     <<42787, 42799, 2, -1>>, <<42803, 42863, 2, -1>>, <<42874, 42876, 2, -1>>,
     <<42879, 42887, 2, -1>>, <<42892, 42892, 1, -1>>, <<42897, 42899, 2, -1>>,
     <<42900, 42900, 1, 48>>, <<42903, 42921, 2, -1>>, <<42933, 42947, 2, -1>>,
     <<42952, 42954, 2, -1>>, <<42957, 42971, 2, -1>>, <<42998, 42998, 1, -1>>,
     <<43859, 43859, 1, -928>>, <<43888, 43967, 1, -38864>>, <<65345, 65370, 1, -32>>,
     <<66600, 66639, 1, -40>>, <<66776, 66811, 1, -40>>, <<66967, 66977, 1, -39>>,
     <<66979, 66993, 1, -39>>, <<66995, 67001, 1, -39>>, <<67003, 67004, 1, -39>>,
     <<68800, 68850, 1, -64>>, <<68976, 68997, 1, -32>>, <<71872, 71903, 1, -32>>,
     <<93792, 93823, 1, -32>>, <<93883, 93907, 1, -27>>, <<125218, 125251, 1, -34>>
  >>

\* The code points whose upper case is more than one code point, with its units.
UpperSpecials ==
  <<
     <<223, <<83, 83>>>>, <<329, <<700, 78>>>>, <<496, <<74, 780>>>>,
     <<912, <<921, 776, 769>>>>, <<944, <<933, 776, 769>>>>, <<1415, <<1333, 1362>>>>,
     <<7830, <<72, 817>>>>, <<7831, <<84, 776>>>>, <<7832, <<87, 778>>>>,
     <<7833, <<89, 778>>>>, <<7834, <<65, 702>>>>, <<8016, <<933, 787>>>>,
     <<8018, <<933, 787, 768>>>>, <<8020, <<933, 787, 769>>>>, <<8022, <<933, 787, 834>>>>,
     <<8064, <<7944, 921>>>>, <<8065, <<7945, 921>>>>, <<8066, <<7946, 921>>>>,
     <<8067, <<7947, 921>>>>, <<8068, <<7948, 921>>>>, <<8069, <<7949, 921>>>>,
     <<8070, <<7950, 921>>>>, <<8071, <<7951, 921>>>>, <<8072, <<7944, 921>>>>,
     <<8073, <<7945, 921>>>>, <<8074, <<7946, 921>>>>, <<8075, <<7947, 921>>>>,
     <<8076, <<7948, 921>>>>, <<8077, <<7949, 921>>>>, <<8078, <<7950, 921>>>>,
     <<8079, <<7951, 921>>>>, <<8080, <<7976, 921>>>>, <<8081, <<7977, 921>>>>,
     <<8082, <<7978, 921>>>>, <<8083, <<7979, 921>>>>, <<8084, <<7980, 921>>>>,
     <<8085, <<7981, 921>>>>, <<8086, <<7982, 921>>>>, <<8087, <<7983, 921>>>>,
     <<8088, <<7976, 921>>>>, <<8089, <<7977, 921>>>>, <<8090, <<7978, 921>>>>,
     <<8091, <<7979, 921>>>>, <<8092, <<7980, 921>>>>, <<8093, <<7981, 921>>>>,
     <<8094, <<7982, 921>>>>, <<8095, <<7983, 921>>>>, <<8096, <<8040, 921>>>>,
     <<8097, <<8041, 921>>>>, <<8098, <<8042, 921>>>>, <<8099, <<8043, 921>>>>,
     <<8100, <<8044, 921>>>>, <<8101, <<8045, 921>>>>, <<8102, <<8046, 921>>>>,
     <<8103, <<8047, 921>>>>, <<8104, <<8040, 921>>>>, <<8105, <<8041, 921>>>>,
     <<8106, <<8042, 921>>>>, <<8107, <<8043, 921>>>>, <<8108, <<8044, 921>>>>,
     <<8109, <<8045, 921>>>>, <<8110, <<8046, 921>>>>, <<8111, <<8047, 921>>>>,
     <<8114, <<8122, 921>>>>, <<8115, <<913, 921>>>>, <<8116, <<902, 921>>>>,
     <<8118, <<913, 834>>>>, <<8119, <<913, 834, 921>>>>, <<8124, <<913, 921>>>>,
     <<8130, <<8138, 921>>>>, <<8131, <<919, 921>>>>, <<8132, <<905, 921>>>>,
     <<8134, <<919, 834>>>>, <<8135, <<919, 834, 921>>>>, <<8140, <<919, 921>>>>,
     <<8146, <<921, 776, 768>>>>, <<8147, <<921, 776, 769>>>>, <<8150, <<921, 834>>>>,
     <<8151, <<921, 776, 834>>>>, <<8162, <<933, 776, 768>>>>, <<8163, <<933, 776, 769>>>>,
     <<8164, <<929, 787>>>>, <<8166, <<933, 834>>>>, <<8167, <<933, 776, 834>>>>,
     <<8178, <<8186, 921>>>>, <<8179, <<937, 921>>>>, <<8180, <<911, 921>>>>,
     <<8182, <<937, 834>>>>, <<8183, <<937, 834, 921>>>>, <<8188, <<937, 921>>>>,
     <<64256, <<70, 70>>>>, <<64257, <<70, 73>>>>, <<64258, <<70, 76>>>>,
     <<64259, <<70, 70, 73>>>>, <<64260, <<70, 70, 76>>>>, <<64261, <<83, 84>>>>,
     <<64262, <<83, 84>>>>, <<64275, <<1348, 1350>>>>, <<64276, <<1348, 1333>>>>,
     <<64277, <<1348, 1339>>>>, <<64278, <<1358, 1350>>>>, <<64279, <<1348, 1341>>>>
  >>

\* toUpperCase of one code point that has a one-to-one mapping or none.
UpperPoint(c) ==
    IF c < 128 THEN (IF c \in 97..122 THEN c - 32 ELSE c)
    ELSE LET rows == {k \in DOMAIN UpperRanges :
                         /\ UpperRanges[k][1] <= c /\ c <= UpperRanges[k][2]
                         /\ (c - UpperRanges[k][1]) % UpperRanges[k][3] = 0}
         IN  IF rows = {} THEN c ELSE c + UpperRanges[Min(rows)][4]

\* toUpperCase of a code unit that is a code point of its own.
UpperUnit(c) ==
    LET rows == IF c < 128 THEN {} ELSE {k \in DOMAIN UpperSpecials : UpperSpecials[k][1] = c}
    IN  IF rows = {} THEN <<UpperPoint(c)>> ELSE UpperSpecials[Min(rows)][2]

\* A high surrogate followed by a low one is one code point, mapped as a whole
\* (its upper case is a pair again); every other unit is mapped on its own, and
\* the code points of UpperSpecials become several units.
RECURSIVE toUpperCase(_)
toUpperCase(s) ==
    LET Pair(i) == /\ i >= 1 /\ i < Len(s)
                   /\ s[i] \in 55296..56319 /\ s[i + 1] \in 56320..57343
        Point(i) == 65536 + (s[i] - 55296) * 1024 + (s[i + 1] - 56320)
        High(c) == 55296 + ((c - 65536) \div 1024)
        Low(c) == 56320 + ((c - 65536) % 1024)
        long == {i \in 1..Len(s) : s[i] >= 128 /\ Len(UpperUnit(s[i])) > 1}
    IN  IF long = {}
        THEN [i \in 1..Len(s) |->
                 IF Pair(i) THEN High(UpperPoint(Point(i)))
                 ELSE IF Pair(i - 1) THEN Low(UpperPoint(Point(i - 1)))
                 ELSE UpperPoint(s[i])]
        ELSE LET i == Min(long)
             IN  toUpperCase(SubSeq(s, 1, i - 1)) \o UpperUnit(s[i])
                    \o toUpperCase(SubSeq(s, i + 1, Len(s)))

Digits == 48..57

\* /\d{4,}/.test(s)
HasDigitRun(s) ==
    \E i \in 1..Len(s) : RunEnd(s, i, Digits) - i >= 4

(***************************************************************************)
(* extractors/pdf.ts: PdfExtractor on pdfjs-serverless.  A PDF buffer is   *)
(* what the library reads from it: whether it loads, and per page whether  *)
(* its text content loads and the items of that content.                   *)
(***************************************************************************)
PDF_SUPPORTED_TYPES == {"application/pdf"}

MIN_TEXT_LENGTH == 50
HEADING_MAX_LENGTH == 120

\* textContent.items.filter("str" in item).map(item.str).join(" ")
PageText(items) ==
    join(Map(SelectSeq(items, LAMBDA item : item.hasStr), LAMBDA item : item.str), <<SP>>)

\* The heading heuristic of pdf.ts (and isHeading of the pdf-lib extractor).
isHeading(text) ==
    /\ Len(text) < HEADING_MAX_LENGTH
    /\ text = toUpperCase(text)
    /\ ~HasDigitRun(text)

TextChunk(type, text, page) ==
    [id |-> << >>, type |-> type, text |-> text, page |-> page, section |-> NoSection]

\* The sparse-page test of pdf.ts.
IsSparse_AtMost(trimmed) == Len(trimmed) <= MIN_TEXT_LENGTH

IsSparse(trimmed) == Len(trimmed) < MIN_TEXT_LENGTH

\* The chunks one page contributes in pdf.ts.
\* The chunks of a page with the sparse branch pushing no chunk.
PdfPageChunks_DropSparseText(items, pageNum) ==
    LET pageText == PageText(items)
        trimmed == trim(pageText)
    IN  IF IsSparse(trimmed) THEN << >>
        ELSE LET paragraphs == SelectSeq(Map(SplitParagraphs(pageText), trim),
                                         LAMBDA para : Len(para) > 0)
             IN  IF Len(paragraphs) = 0
                 THEN <<TextChunk("paragraph", pageText, pageNum)>>
                 ELSE Map(paragraphs,
                          LAMBDA para : TextChunk(IF isHeading(para) THEN "heading"
                                                  ELSE "paragraph", para, pageNum))

PdfPageChunks(items, pageNum) ==
    LET pageText == PageText(items)
        trimmed == trim(pageText)
    IN  IF IsSparse(trimmed)
        THEN IF Len(trimmed) > 0 THEN <<TextChunk("paragraph", trimmed, pageNum)>> ELSE << >>
        ELSE LET paragraphs == SelectSeq(Map(SplitParagraphs(pageText), trim),
                                         LAMBDA para : Len(para) > 0)
             IN  IF Len(paragraphs) = 0
                 THEN <<TextChunk("paragraph", pageText, pageNum)>>
                 ELSE Map(paragraphs,
                          LAMBDA para : TextChunk(IF isHeading(para) THEN "heading"
                                                  ELSE "paragraph", para, pageNum))

RECURSIVE PdfChunksFrom(_, _)
PdfChunksFrom(pages, pageNum) ==
    IF pageNum > Len(pages) THEN << >>
    ELSE PdfPageChunks(pages[pageNum].items, pageNum) \o PdfChunksFrom(pages, pageNum + 1)

\* ocrPages: the page numbers pushed by the sparse branch, in loop order.
RECURSIVE PdfOcrPagesFrom(_, _)
PdfOcrPagesFrom(pages, pageNum) ==
    IF pageNum > Len(pages) THEN << >>
    ELSE (IF IsSparse(trim(PageText(pages[pageNum].items))) THEN <<pageNum>> ELSE << >>)
            \o PdfOcrPagesFrom(pages, pageNum + 1)

\* A rejection or throw with its message, a sequence of the message's parts.
Failure(message) == [ok |-> FALSE, error |-> message]

\* isScannedPdf without the guard for a document of no page.
isScannedPdf_NoPageGuard(ocrPages, totalPages) == Len(ocrPages) = totalPages

\* metadata.isScannedPdf: ocrPages.length === totalPages && totalPages > 0
isScannedPdf(ocrPages, totalPages) == Len(ocrPages) = totalPages /\ totalPages > 0

\* extract of pdf.ts.  getDocument rejects on a buffer that is no PDF, and
\* getPage / getTextContent reject on a page that cannot be read: nothing catches
\* either, so extract rejects.
PdfExtractor_extract(buffer, fileName, used) ==
    IF buffer.kind # "pdf" THEN Failure(<<"Invalid PDF structure.">>)
    ELSE IF \E n \in 1..Len(buffer.pages) : buffer.pages[n].textFails
    THEN Failure(<<"Unable to read page text.">>)
    ELSE LET totalPages == Len(buffer.pages)
             ocrPages == PdfOcrPagesFrom(buffer.pages, 1)
         IN  [ok |-> TRUE,
              doc |-> [documentId |-> uuidv4(used),
                       fileName |-> fileName,
                       mimeType |-> "application/pdf",
                       metadata |-> [pageCount |-> totalPages,
                                     ocrPages |-> ocrPages,
                                     isScannedPdf |-> isScannedPdf(ocrPages, totalPages)],
                       chunks |-> PdfChunksFrom(buffer.pages, 1)]]

(***************************************************************************)
(* The other built-in extractors.  A workbook, a presentation, a document  *)
(* and an image are what the extractor's parsing library (exceljs, jszip,  *)
(* mammoth, sharp) yields for them, and a buffer of another kind makes     *)
(* that library throw.  The CSV and the HTML extractor decode any buffer   *)
(* as UTF-8 text and parse that text.                                      *)
(***************************************************************************)
DOCX_SUPPORTED_TYPES ==
    {"application/vnd.openxmlformats-officedocument.wordprocessingml.document",
     "application/msword"}
EXCEL_SUPPORTED_TYPES ==
    {"application/vnd.openxmlformats-officedocument.spreadsheetml.sheet",
     "application/vnd.ms-excel"}
CSV_SUPPORTED_TYPES == {"text/csv", "text/tab-separated-values", "application/csv"}
PPTX_SUPPORTED_TYPES ==
    {"application/vnd.openxmlformats-officedocument.presentationml.presentation",
     "application/vnd.ms-powerpoint"}
HTML_SUPPORTED_TYPES == {"text/html", "application/xhtml+xml"}
IMAGE_SUPPORTED_TYPES ==
    {"image/png", "image/jpeg", "image/jpg", "image/webp", "image/tiff", "image/gif",
     "image/bmp"}

Bar == 124
Dash == 45

\* `| ${row.join(" | ")} |`
TableLine(row) == <<Bar, SP>> \o join(row, <<SP, Bar, SP>>) \o <<SP, Bar>>

\* The markdown-style table of the CSV and Excel extractors.
TableText(rows) ==
    LET header == rows[1]
        separator == [i \in 1..Len(header) |-> <<Dash, Dash, Dash>>]
    IN  join(<<TableLine(header), TableLine(separator)>> \o Map(Tail(rows), TableLine),
             <<LF>>)

\* The literal pattern matches s at index i.  With the flag i (fold) a letter of
\* Basic Latin matches in both cases; a unit past Basic Latin never folds into it.
LiteralAt(s, i, literal, fold) ==
    LET Fold(c) == IF fold /\ c \in 65..90 THEN c + 32 ELSE c
    IN  /\ i >= 1 /\ i + Len(literal) - 1 <= Len(s)
        /\ \A k \in 1..Len(literal) : Fold(s[i + k - 1]) = Fold(literal[k])

\* The first index at or after `from` where the literal matches, 0 without one.
IndexOfLiteral(s, from, literal, fold) ==
    LET hits == {i \in from..Len(s) : LiteralAt(s, i, literal, fold)}
    IN  IF hits = {} THEN 0 ELSE Min(hits)

\* s.split(literal): the matches are taken left to right and do not overlap.
RECURSIVE SplitLiteralFrom(_, _, _)
SplitLiteralFrom(s, from, literal) ==
    LET i == IndexOfLiteral(s, from, literal, FALSE)
    IN  IF i = 0 THEN <<SubSeq(s, from, Len(s))>>
        ELSE <<SubSeq(s, from, i - 1)>> \o SplitLiteralFrom(s, i + Len(literal), literal)

\* s.replace(/literal/g, by)
ReplaceLiteral(s, literal, by) == join(SplitLiteralFrom(s, 1, literal), by)

\* buffer.toString("utf-8"): the text a buffer decodes to.  A CSV, an HTML and a
\* text buffer are their text; of a binary file the samples keep the signature
\* the file starts with: "%PDF-1.7", "PK" 3 4 of a ZIP container, the signature of
\* the image format, and one byte that is not UTF-8 of a buffer no library reads.
\* A byte that is not UTF-8 decodes to U+FFFD: the first byte of a PNG file (89 hex)
\* and each of the four of a JPEG file (FF D8 FF E0).  An image whose format sharp
\* does not tell is a PNG file.
Utf8Of(buffer) ==
    CASE buffer.kind \in {"csv", "html", "text"} -> buffer.text
      [] buffer.kind = "pdf" -> <<37, 80, 68, 70, 45, 49, 46, 55>>
      [] buffer.kind \in {"xlsx", "pptx", "docx"} -> <<80, 75, 3, 4>>
      [] buffer.kind = "image" ->
           CASE buffer.format = "jpeg" -> <<65533, 65533, 65533, 65533>>
             [] buffer.format = "gif" -> <<71, 73, 70, 56>>
             [] buffer.format = "webp" -> <<82, 73, 70, 70>>
             [] buffer.format = "tiff" -> <<73, 73, 42, 0>>
             [] buffer.format = "bmp" -> <<66, 77>>
             [] OTHER -> <<65533, 80, 78, 71>>
      [] OTHER -> <<65533>>

\* csv-parse finds the record delimiter itself: the first of "\r\n", "\n" and
\* "\r" it meets in the content, << >> when the content has none.
CsvRecordDelimiter(content) ==
    LET breaks == {i \in 1..Len(content) : content[i] \in {CR, LF}}
    IN  IF breaks = {} THEN << >>
        ELSE LET i == Min(breaks)
             IN  IF content[i] = LF THEN <<LF>>
                 ELSE IF i < Len(content) /\ content[i + 1] = LF THEN <<CR, LF>>
                 ELSE <<CR>>

\* The characters the option ltrim skips at the start of a field.
CsvTrimable == {SP, TAB, LF, CR, FF}

\* A field under trim: true: the leading trimable characters are never stored,
\* and what is stored is right-trimmed as a string (String.prototype.trimRight).
CsvField(raw) ==
    LET stored == SubSeq(raw, RunEnd(raw, 1, CsvTrimable), Len(raw))
        kept == {i \in 1..Len(stored) : stored[i] \notin JsWhiteSpace}
    IN  IF kept = {} THEN << >> ELSE SubSeq(stored, 1, Max(kept))

\* parse(content, { delimiter, relax_column_count: true, skip_empty_lines: true,
\* trim: true }) of csv-parse/sync, for a content without quote characters: the
\* records are the lines between record delimiters and the unterminated last one;
\* a line with no delimiter in which nothing is stored is empty and skipped; the
\* records need not have the same number of fields.
parse(content, delimiter) ==
    LET recordDelimiter == CsvRecordDelimiter(content)
        lines == IF recordDelimiter = << >> THEN <<content>>
                 ELSE SplitLiteralFrom(content, 1, recordDelimiter)
        kept == SelectSeq(lines, LAMBDA line :
                              \E i \in 1..Len(line) :
                                  line[i] = delimiter \/ line[i] \notin CsvTrimable)
    IN  [r \in 1..Len(kept) |-> Map(split(kept[r], delimiter), CsvField)]

\* Any buffer is read as UTF-8 text; the delimiter is a tab when the text holds
\* one, a comma otherwise.
CsvExtractor_extract(buffer, fileName, used) ==
    LET content == Utf8Of(buffer)
        delimiter == IF \E i \in 1..Len(content) : content[i] = TAB THEN TAB ELSE Comma
        records == parse(content, delimiter)
    IN  [ok |-> TRUE,
         doc |-> [documentId |-> uuidv4(used),
                  fileName |-> fileName,
                  mimeType |-> "text/csv",
                  metadata |-> [rowCount |-> Len(records),
                                columnCount |-> IF Len(records) > 0
                                                THEN Len(records[1]) ELSE 0,
                                delimiter |-> <<delimiter>>],
                  chunks |-> IF Len(records) > 0
                             THEN <<[id |-> << >>, type |-> "table",
                                     text |-> TableText(records),
                                     page |-> NoPage, section |-> NoSection]>>
                             ELSE << >>]]

\* One chunk per worksheet that has rows; section is the sheet name or `Sheet ${id}`.
ExcelExtractor_extract(buffer, fileName, used) ==
    IF buffer.kind # "xlsx" THEN Failure(<<"Can't find end of central directory">>)
    ELSE LET withRows == SelectSeq(buffer.sheets, LAMBDA ws : Len(ws.rows) > 0)
         IN  [ok |-> TRUE,
              doc |-> [documentId |-> uuidv4(used),
                       fileName |-> fileName,
                       mimeType |->
                         "application/vnd.openxmlformats-officedocument.spreadsheetml.sheet",
                       metadata |-> [sheetCount |-> Len(buffer.sheets),
                                     sheetNames |-> Map(buffer.sheets, LAMBDA ws : ws.name)],
                       chunks |-> Map(withRows,
                                      LAMBDA ws : [id |-> << >>, type |-> "table",
                                                   text |-> TableText(ws.rows),
                                                   page |-> NoPage,
                                                   section |-> IF ws.name # << >>
                                                               THEN <<"name", ws.name>>
                                                               ELSE <<"Sheet", ws.id>>])]]

\* The text of one slide: its <a:t> contents, trimmed, the empty ones dropped,
\* joined by a space.
SlideText(parts) ==
    join(SelectSeq(Map(parts, trim), LAMBDA text : Len(text) > 0), <<SP>>)

RECURSIVE PptxChunksFrom(_, _)
PptxChunksFrom(slides, i) ==
    IF i > Len(slides) THEN << >>
    ELSE (IF Len(trim(SlideText(slides[i]))) > 0
          THEN <<[id |-> << >>, type |-> "paragraph", text |-> SlideText(slides[i]),
                  page |-> i, section |-> <<"Slide", i>>]>>
          ELSE << >>) \o PptxChunksFrom(slides, i + 1)

PptxExtractor_extract(buffer, fileName, used) ==
    IF buffer.kind # "pptx" THEN Failure(<<"Can't find end of central directory">>)
    ELSE [ok |-> TRUE,
          doc |-> [documentId |-> uuidv4(used),
                   fileName |-> fileName,
                   mimeType |->
                     "application/vnd.openxmlformats-officedocument.presentationml.presentation",
                   metadata |-> [slideCount |-> Len(buffer.slides)],
                   chunks |-> PptxChunksFrom(buffer.slides, 1)]]

DocxTagType(tag) ==
    IF tag \in {"h1", "h2", "h3", "h4", "h5", "h6"} THEN "heading"
    ELSE IF tag = "li" THEN "list"
    ELSE IF tag = "tr" THEN "table"
    ELSE "paragraph"

\* buffer.elements: the (tag, inner text without tags) matches of the tag pattern
\* in mammoth's HTML; buffer.rawText: mammoth's raw text, used when no element
\* gave a chunk.
DocxExtractor_extract(buffer, fileName, used) ==
    IF buffer.kind # "docx" THEN Failure(<<"Can't find end of central directory">>)
    ELSE LET fromHtml ==
                 Map(SelectSeq(buffer.elements, LAMBDA el : Len(trim(el.inner)) > 0),
                     LAMBDA el : [id |-> << >>, type |-> DocxTagType(el.tag),
                                  text |-> trim(el.inner),
                                  page |-> NoPage, section |-> NoSection])
             fromRaw ==
                 Map(SelectSeq(Map(SplitParagraphs(buffer.rawText), trim),
                               LAMBDA para : Len(para) > 0),
                     LAMBDA para : [id |-> << >>, type |-> "paragraph", text |-> para,
                                    page |-> NoPage, section |-> NoSection])
         IN  [ok |-> TRUE,
              doc |-> [documentId |-> uuidv4(used),
                       fileName |-> fileName,
                       mimeType |->
                         "application/vnd.openxmlformats-officedocument.wordprocessingml.document",
                       metadata |-> [warnings |-> buffer.warnings],
                       chunks |-> IF Len(fromHtml) = 0 THEN fromRaw ELSE fromHtml]]

\* /<title[^>]*>([\s\S]*?)<\/title>/i: the first "<title" that is closed by a ">"
\* and followed by "</title>"; the group is the text between the two.  The title
\* is its trimmed text, << >> without a match (an empty title is left out of the
\* metadata as an absent one is).
TitleOf(html) ==
    LET open == <<60, 116, 105, 116, 108, 101>>
        close == <<60, 47, 116, 105, 116, 108, 101, 62>>
        TagClose(i) == LET closes == {j \in (i + Len(open))..Len(html) : html[j] = RAngle}
                       IN  IF closes = {} THEN 0 ELSE Min(closes)
        starts == {i \in 1..Len(html) :
                      /\ html[i] = LAngle
                      /\ LiteralAt(html, i, open, TRUE)
                      /\ TagClose(i) # 0
                      /\ IndexOfLiteral(html, TagClose(i) + 1, close, TRUE) # 0}
    IN  IF starts = {} THEN << >>
        ELSE LET from == TagClose(Min(starts)) + 1
             IN  trim(SubSeq(html, from, IndexOfLiteral(html, from, close, TRUE) - 1))

\* s.replace(/open[\s\S]*?close/g, ""), with the flag i when fold: from each
\* `open` that a `close` follows, up to the first such `close`.
RECURSIVE RemoveElementsFrom(_, _, _, _, _)
RemoveElementsFrom(s, from, open, close, fold) ==
    LET starts == {i \in from..Len(s) :
                      /\ s[i] = LAngle
                      /\ LiteralAt(s, i, open, fold)
                      /\ IndexOfLiteral(s, i + Len(open), close, fold) # 0}
    IN  IF starts = {} THEN SubSeq(s, from, Len(s))
        ELSE LET i == Min(starts)
                 e == IndexOfLiteral(s, i + Len(open), close, fold)
             IN  SubSeq(s, from, i - 1)
                    \o RemoveElementsFrom(s, e + Len(close), open, close, fold)

\* Step 2: script, style, noscript and svg elements and comments are removed,
\* one kind after the other.
RemoveUnreadable(html) ==
    LET s1 == RemoveElementsFrom(html, 1, <<60, 115, 99, 114, 105, 112, 116>>,
                                 <<60, 47, 115, 99, 114, 105, 112, 116, 62>>, TRUE)
        s2 == RemoveElementsFrom(s1, 1, <<60, 115, 116, 121, 108, 101>>,
                                 <<60, 47, 115, 116, 121, 108, 101, 62>>, TRUE)
        s3 == RemoveElementsFrom(s2, 1, <<60, 110, 111, 115, 99, 114, 105, 112, 116>>,
                                 <<60, 47, 110, 111, 115, 99, 114, 105, 112, 116, 62>>, TRUE)
        s4 == RemoveElementsFrom(s3, 1, <<60, 115, 118, 103>>,
                                 <<60, 47, 115, 118, 103, 62>>, TRUE)
    IN  RemoveElementsFrom(s4, 1, <<60, 33, 45, 45>>, <<45, 45, 62>>, FALSE)

\* The names of step 3: p div br hr section article header footer main nav aside
\* blockquote pre table tr ul ol dl dt dd figcaption figure.
StructuralTags ==
    {
     <<112>>, <<100, 105, 118>>, <<98, 114>>, <<104, 114>>,
     <<115, 101, 99, 116, 105, 111, 110>>, <<97, 114, 116, 105, 99, 108, 101>>,
     <<104, 101, 97, 100, 101, 114>>, <<102, 111, 111, 116, 101, 114>>,
     <<109, 97, 105, 110>>, <<110, 97, 118>>, <<97, 115, 105, 100, 101>>,
     <<98, 108, 111, 99, 107, 113, 117, 111, 116, 101>>, <<112, 114, 101>>,
     <<116, 97, 98, 108, 101>>, <<116, 114>>, <<117, 108>>, <<111, 108>>, <<100, 108>>,
     <<100, 116>>, <<100, 100>>, <<102, 105, 103, 99, 97, 112, 116, 105, 111, 110>>,
     <<102, 105, 103, 117, 114, 101>>
    }

\* The last index of the match of /<\/?(names)[^>]*>/i at index i, 0 without one:
\* "<", a "/" or none, a name in either case, then everything up to the first ">".
\* No word ends the name: "<param>" matches by the name p.
TagEnd(s, i, names) ==
    IF s[i] # LAngle THEN 0
    ELSE LET n == IF i < Len(s) /\ s[i + 1] = Slash THEN i + 2 ELSE i + 1
             closes == {j \in n..Len(s) : s[j] = RAngle}
         IN  IF (\E name \in names : LiteralAt(s, n, name, TRUE)) /\ closes # {}
             THEN Min(closes) ELSE 0

\* s.replace(/<\/?(names)[^>]*>/gi, by)
RECURSIVE ReplaceTagsFrom(_, _, _, _)
ReplaceTagsFrom(s, from, names, by) ==
    LET starts == {i \in from..Len(s) : TagEnd(s, i, names) # 0}
    IN  IF starts = {} THEN SubSeq(s, from, Len(s))
        ELSE LET i == Min(starts)
             IN  SubSeq(s, from, i - 1) \o by
                    \o ReplaceTagsFrom(s, TagEnd(s, i, names) + 1, names, by)

\* Step 5: &amp; &lt; &gt; &quot; &#39; &nbsp; are decoded, in this order.
DecodeEntities(html) ==
    LET s1 == ReplaceLiteral(html, <<38, 97, 109, 112, 59>>, <<38>>)
        s2 == ReplaceLiteral(s1, <<38, 108, 116, 59>>, <<LAngle>>)
        s3 == ReplaceLiteral(s2, <<38, 103, 116, 59>>, <<RAngle>>)
        s4 == ReplaceLiteral(s3, <<38, 113, 117, 111, 116, 59>>, <<34>>)
        s5 == ReplaceLiteral(s4, <<38, 35, 51, 57, 59>>, <<39>>)
    IN  ReplaceLiteral(s5, <<38, 110, 98, 115, 112, 59>>, <<SP>>)

\* Any buffer is read as UTF-8 text.  Steps 2 to 5: the elements without readable
\* content are removed, the structural tags become line feeds, the other tags
\* (then h1 to h6), the other tags spaces (/<[^>]*>/g: a tag of any name), the
\* entities are decoded.  Step 6 splits the text into paragraphs.
HtmlExtractor_extract(buffer, fileName, used) ==
    LET html == Utf8Of(buffer)
        step2 == RemoveUnreadable(html)
        headings == {<<104, digit>> : digit \in 49..54}
        step3 == ReplaceTagsFrom(ReplaceTagsFrom(step2, 1, StructuralTags, <<LF>>), 1,
                                 headings, <<LF>>)
        step4 == ReplaceTagsFrom(step3, 1, {<< >>}, <<SP>>)
        text == DecodeEntities(step4)
        paragraphs ==
            SelectSeq(Map(SplitParagraphs(text),
                          LAMBDA para : trim(ReplaceRuns(para, JsWhiteSpace, 1, <<SP>>))),
                      LAMBDA para : Len(para) > 0)
    IN  [ok |-> TRUE,
         doc |-> [documentId |-> uuidv4(used),
                  fileName |-> fileName,
                  mimeType |-> "text/html",
                  metadata |-> [title |-> TitleOf(html)],
                  chunks |-> Map(paragraphs,
                                 LAMBDA para : [id |-> << >>, type |-> "paragraph",
                                                text |-> para,
                                                page |-> NoPage, section |-> NoSection])]]

(***************************************************************************)
(* extractors/ocr-provider.ts: PdfExtractor on pdf-lib and pdf-parse.      *)
(* Content streams are latin1 strings: sequences of bytes.  Indexes into   *)
(* them count from 0 as in the source; an index at or past the end reads   *)
(* `undefined`, here Undefined.                                            *)
(***************************************************************************)
Undefined == -1
BS == 8
DQuote == 34
Quote == 39
LParen == 40
RParen == 41
Plus == 43
Zero == 48
LBracket == 91
Backslash == 92
RBracket == 93
LetterN == 110
LetterR == 114
LetterT == 116
LetterF == 102
UpperT == 84
LetterJ == 106
UpperJ == 74

CharAt(content, index) ==
    IF index >= 0 /\ index < Len(content) THEN content[index + 1] ELSE Undefined

\* content.slice(from, to)
Slice(content, from, to) == SubSeq(content, from + 1, to)

OctalDigits == 48..55
HexDigits == (48..57) \cup (65..70) \cup (97..102)
Letters == (65..90) \cup (97..122)

\* A thrown error or a text.
Text(units) == [ok |-> TRUE, text |-> units]
Thrown(message) == [ok |-> FALSE, error |-> message]

\* buffer.toString("utf8"), or failure where the decoder would put U+FFFD for a
\* malformed sequence.
RECURSIVE Utf8From(_, _)
Utf8From(bytes, i) ==
    IF i > Len(bytes) THEN Text(<< >>)
    ELSE LET b1 == bytes[i]
             Cont(k, lo, hi) == i + k <= Len(bytes) /\ bytes[i + k] \in lo..hi
             Rest(n, units) ==
                 LET rest == Utf8From(bytes, i + n)
                 IN  IF rest.ok THEN Text(units \o rest.text) ELSE rest
         IN  IF b1 < 128 THEN Rest(1, <<b1>>)
             ELSE IF b1 \in 194..223 /\ Cont(1, 128, 191)
             THEN Rest(2, <<(b1 - 192) * 64 + (bytes[i + 1] - 128)>>)
             ELSE IF b1 \in 224..239
                     /\ Cont(1, IF b1 = 224 THEN 160 ELSE 128, IF b1 = 237 THEN 159 ELSE 191)
                     /\ Cont(2, 128, 191)
             THEN Rest(3, <<(b1 - 224) * 4096 + (bytes[i + 1] - 128) * 64
                              + (bytes[i + 2] - 128)>>)
             ELSE IF b1 \in 240..244
                     /\ Cont(1, IF b1 = 240 THEN 144 ELSE 128, IF b1 = 244 THEN 143 ELSE 191)
                     /\ Cont(2, 128, 191)
                     /\ Cont(3, 128, 191)
             THEN LET cp == (b1 - 240) * 262144 + (bytes[i + 1] - 128) * 4096
                              + (bytes[i + 2] - 128) * 64 + (bytes[i + 3] - 128)
                  IN  Rest(4, <<55296 + ((cp - 65536) \div 1024),
                                56320 + ((cp - 65536) % 1024)>>)
             ELSE Thrown(<<"malformed UTF-8">>)

ReplacementCharacter == 65533

\* buffer.toString("utf16le"): byte pairs, low byte first; an odd last byte is left out.
Utf16le(bytes) ==
    [k \in 1..(Len(bytes) \div 2) |-> bytes[2 * k - 1] + 256 * bytes[2 * k]]

\* buffer.swap16().toString("utf16le"); swap16 throws on an odd length.
Utf16be(bytes) ==
    [k \in 1..(Len(bytes) \div 2) |-> 256 * bytes[2 * k - 1] + bytes[2 * k]]

\* decodeText.  Buffer.from(bytes) keeps each number modulo 256.
decodeText(numbers) ==
    Let([k \in 1..Len(numbers) |-> numbers[k] % 256], LAMBDA buffer :
        IF Len(buffer) = 0 THEN Text(<< >>)
        ELSE IF Len(buffer) >= 2 /\ buffer[1] = 254 /\ buffer[2] = 255
        THEN IF (Len(buffer) - 2) % 2 = 1
             THEN Thrown(<<"Buffer size must be a multiple of 16-bits">>)
             ELSE Text(Utf16be(SubSeq(buffer, 3, Len(buffer))))
        ELSE IF Len(buffer) >= 2 /\ buffer[1] = 255 /\ buffer[2] = 254
        THEN Text(Utf16le(SubSeq(buffer, 3, Len(buffer))))
        ELSE Let(Utf8From(buffer, 1), LAMBDA utf8 :
                 IF ~utf8.ok \/ \E k \in 1..Len(utf8.text) : utf8.text[k] = ReplacementCharacter
                 THEN Text(buffer)
                 ELSE utf8))

\* An octal escape that takes every octal digit that follows.
OctalEnd_NoLimit(content, index, more) == RunEnd(content, index + 1, OctalDigits) - 1

\* The end (exclusive, 0-based) of the octal digits of an escape: at most `more`
\* further digits from index on.
RECURSIVE OctalEnd(_, _, _)
OctalEnd(content, index, more) ==
    IF more > 0 /\ index < Len(content) /\ CharAt(content, index) \in OctalDigits
    THEN OctalEnd(content, index + 1, more - 1)
    ELSE index

\* parseInt(digits, radix) for a string of digits of that radix.
DigitValue(c) ==
    IF c \in 48..57 THEN c - 48 ELSE IF c \in 65..70 THEN c - 55 ELSE c - 87

RECURSIVE ParseDigits(_, _)
ParseDigits(digits, radix) ==
    IF digits = << >> THEN 0
    ELSE ParseDigits(SubSeq(digits, 1, Len(digits) - 1), radix) * radix
            + DigitValue(digits[Len(digits)])

\* The loop of readLiteralString: the bytes read and the index after the string.
RECURSIVE ReadLiteralFrom(_, _, _, _)
ReadLiteralFrom(content, index, depth, bytes) ==
    IF ~(index < Len(content) /\ depth > 0)
    THEN [bytes |-> bytes, nextIndex |-> index]
    ELSE LET char == CharAt(content, index)
             next == CharAt(content, index + 1)
         IN  IF char = Backslash
             THEN IF index + 1 >= Len(content)
                  THEN [bytes |-> bytes, nextIndex |-> index + 1]
                  ELSE IF next \in OctalDigits
                  THEN LET end == OctalEnd(content, index + 2, 2)
                       IN  ReadLiteralFrom(content, end, depth,
                               Append(bytes, ParseDigits(Slice(content, index + 1, end), 8)))
                  ELSE IF next = LetterN
                  THEN ReadLiteralFrom(content, index + 2, depth, Append(bytes, LF))
                  ELSE IF next = LetterR
                  THEN ReadLiteralFrom(content, index + 2, depth, Append(bytes, CR))
                  ELSE IF next = LetterT
                  THEN ReadLiteralFrom(content, index + 2, depth, Append(bytes, TAB))
                  ELSE IF next = LetterB
                  THEN ReadLiteralFrom(content, index + 2, depth, Append(bytes, BS))
                  ELSE IF next = LetterF
                  THEN ReadLiteralFrom(content, index + 2, depth, Append(bytes, FF))
                  ELSE IF next = CR
                  THEN ReadLiteralFrom(content,
                           IF CharAt(content, index + 2) = LF THEN index + 3 ELSE index + 2,
                           depth, bytes)
                  ELSE IF next = LF
                  THEN ReadLiteralFrom(content, index + 2, depth, bytes)
                  ELSE ReadLiteralFrom(content, index + 2, depth, Append(bytes, next))
             ELSE IF char = LParen
             THEN ReadLiteralFrom(content, index + 1, depth + 1, Append(bytes, char))
             ELSE IF char = RParen
             THEN ReadLiteralFrom(content, index + 1, depth - 1,
                      IF depth - 1 > 0 THEN Append(bytes, char) ELSE bytes)
             ELSE ReadLiteralFrom(content, index + 1, depth, Append(bytes, char))

\* A decoded string with the index after it, or the error decodeText threw.
Decoded(bytes, nextIndex) ==
    Let(decodeText(bytes), LAMBDA decoded :
        IF decoded.ok
        THEN [ok |-> TRUE, text |-> decoded.text, nextIndex |-> nextIndex]
        ELSE decoded)

\* readLiteralString whose depth starts at 0.
readLiteralString_DepthZero(content, start) ==
    Let(ReadLiteralFrom(content, start + 1, 0, << >>),
        LAMBDA read : Decoded(read.bytes, read.nextIndex))

readLiteralString(content, start) ==
    Let(ReadLiteralFrom(content, start + 1, 1, << >>),
        LAMBDA read : Decoded(read.bytes, read.nextIndex))

\* The loop of readHexString: the characters kept and the index after the string.
RECURSIVE ReadHexFrom(_, _, _)
ReadHexFrom(content, index, hex) ==
    IF ~(index < Len(content)) THEN [hex |-> hex, nextIndex |-> index]
    ELSE LET char == CharAt(content, index)
         IN  IF char = RAngle THEN [hex |-> hex, nextIndex |-> index + 1]
             ELSE ReadHexFrom(content, index + 1,
                      IF char \notin JsWhiteSpace THEN Append(hex, char) ELSE hex)

\* parseInt(pair, 16) of two characters, as a byte of Buffer.from: a sign is read,
\* parsing stops at the first character that is no hex digit, NaN becomes 0.
HexByte(a, b) ==
    IF a \in HexDigits
    THEN IF b \in HexDigits THEN DigitValue(a) * 16 + DigitValue(b) ELSE DigitValue(a)
    ELSE IF a = Plus /\ b \in HexDigits THEN DigitValue(b)
    ELSE IF a = Dash /\ b \in HexDigits THEN (256 - DigitValue(b)) % 256
    ELSE 0

\* Pairing that drops the last digit of an odd number of digits.
HexBytes_DropOdd(digits) ==
    [k \in 1..(Len(digits) \div 2) |-> HexByte(digits[2 * k - 1], digits[2 * k])]

HexBytes(digits) ==
    LET hex == IF Len(digits) % 2 = 1 THEN Append(digits, Zero) ELSE digits
    IN  [k \in 1..(Len(hex) \div 2) |-> HexByte(hex[2 * k - 1], hex[2 * k])]

readHexString(content, start) ==
    Let(ReadHexFrom(content, start + 1, << >>),
        LAMBDA read : Decoded(HexBytes(read.hex), read.nextIndex))

\* The loop of readTextArray.
RECURSIVE ReadTextArrayFrom(_, _, _)
ReadTextArrayFrom(content, index, items) ==
    IF ~(index < Len(content)) THEN [ok |-> TRUE, items |-> items, nextIndex |-> index]
    ELSE IF CharAt(content, index) = RBracket
    THEN [ok |-> TRUE, items |-> items, nextIndex |-> index + 1]
    ELSE IF CharAt(content, index) = LParen
    THEN Let(readLiteralString(content, index), LAMBDA literal :
             IF literal.ok
             THEN ReadTextArrayFrom(content, literal.nextIndex, Append(items, literal.text))
             ELSE literal)
    ELSE IF CharAt(content, index) = LAngle /\ CharAt(content, index + 1) # LAngle
    THEN Let(readHexString(content, index), LAMBDA hex :
             IF hex.ok
             THEN ReadTextArrayFrom(content, hex.nextIndex, Append(items, hex.text))
             ELSE hex)
    ELSE ReadTextArrayFrom(content, index + 1, items)

\* readTextArray that gives the strings last to first.
readTextArray_LastFirst(content, start) ==
    Let(ReadTextArrayFrom(content, start + 1, << >>), LAMBDA read :
        IF ~read.ok THEN read
        ELSE [read EXCEPT !.items =
                 [k \in 1..Len(read.items) |-> read.items[Len(read.items) + 1 - k]]])

readTextArray(content, start) == ReadTextArrayFrom(content, start + 1, << >>)

\* The operator name `null`.
NoName == << >>

\* The end (exclusive, 0-based) of the run of characters of `set` from index on.
RunEndAt(content, index, set) == RunEnd(content, index + 1, set) - 1

readOperator(content, start) ==
    LET index == RunEndAt(content, start, JsWhiteSpace)
        char == CharAt(content, index)
        end == RunEndAt(content, index, Letters)
    IN  IF index >= Len(content) THEN [name |-> NoName, nextIndex |-> index]
        ELSE IF char = Quote \/ char = DQuote
        THEN [name |-> <<char>>, nextIndex |-> index + 1]
        ELSE IF end = index THEN [name |-> NoName, nextIndex |-> index + 1]
        ELSE [name |-> Slice(content, index, end), nextIndex |-> end]

\* isSimpleTextOperator that knows Tj only.
isSimpleTextOperator_TjOnly(name) == name = <<UpperT, LetterJ>>

isSimpleTextOperator(name) ==
    name = <<UpperT, LetterJ>> \/ name = <<Quote>> \/ name = <<DQuote>>

\* The loop of extractStrings: the texts shown by Tj, ', " and TJ, in stream order,
\* or the error a string's decoding threw.
RECURSIVE ExtractStringsFrom(_, _, _)
ExtractStringsFrom(content, index, results) ==
    IF ~(index < Len(content)) THEN [ok |-> TRUE, results |-> results]
    ELSE IF CharAt(content, index) = LParen
    THEN Let(readLiteralString(content, index), LAMBDA literal :
             IF ~literal.ok THEN literal
             ELSE Let(readOperator(content, literal.nextIndex), LAMBDA operator :
                      ExtractStringsFrom(content, operator.nextIndex,
                          IF isSimpleTextOperator(operator.name)
                          THEN Append(results, literal.text) ELSE results)))
    ELSE IF CharAt(content, index) = LAngle /\ CharAt(content, index + 1) # LAngle
    THEN Let(readHexString(content, index), LAMBDA hex :
             IF ~hex.ok THEN hex
             ELSE Let(readOperator(content, hex.nextIndex), LAMBDA operator :
                      ExtractStringsFrom(content, operator.nextIndex,
                          IF isSimpleTextOperator(operator.name)
                          THEN Append(results, hex.text) ELSE results)))
    ELSE IF CharAt(content, index) = LBracket
    THEN Let(readTextArray(content, index), LAMBDA arrayContents :
             IF ~arrayContents.ok THEN arrayContents
             ELSE Let(readOperator(content, arrayContents.nextIndex), LAMBDA operator :
                      ExtractStringsFrom(content, operator.nextIndex,
                          IF operator.name = <<UpperT, UpperJ>>
                             /\ Len(arrayContents.items) > 0
                          THEN Append(results, join(arrayContents.items, << >>))
                          ELSE results)))
    ELSE ExtractStringsFrom(content, index + 1, results)

extractStrings(content) == ExtractStringsFrom(content, 0, << >>)

\* getContentStreams: the page's Contents entry is absent, one stream, an array, or
\* something else.  An array entry that is there but is no stream makes pdf-lib's
\* lookupMaybe throw; an entry that resolves to nothing is skipped.
getContentStreams(page) ==
    IF page.contents.kind = "array"
    THEN IF \E k \in 1..Len(page.contents.entries) :
                page.contents.entries[k].kind \notin {"stream", "missing"}
         THEN Thrown(<<"UnexpectedObjectTypeError">>)
         ELSE [ok |-> TRUE,
               streams |-> SelectSeq(page.contents.entries,
                                     LAMBDA entry : entry.kind = "stream")]
    ELSE IF page.contents.kind = "stream"
    THEN [ok |-> TRUE, streams |-> page.contents.entries]
    ELSE [ok |-> TRUE, streams |-> << >>]

\* decodeStream: the unencoded contents of a PDFContentStream, the decoded bytes
\* of a PDFRawStream or its raw bytes when decoding throws, the raw bytes otherwise.
decodeStream(stream) ==
    IF stream.class = "PDFContentStream" THEN stream.decoded
    ELSE IF stream.class = "PDFRawStream" /\ stream.decodes THEN stream.decoded
    ELSE stream.contents

\* token.replace(/\s+/g, " ").trim()
CollapseSpace(text) == trim(ReplaceRuns(text, JsWhiteSpace, 1, <<SP>>))

RECURSIVE TokensFrom(_, _)
TokensFrom(streams, k) ==
    IF k > Len(streams) THEN [ok |-> TRUE, results |-> << >>]
    ELSE Let(extractStrings(decodeStream(streams[k])), LAMBDA strings :
             IF ~strings.ok THEN strings
             ELSE Let(TokensFrom(streams, k + 1), LAMBDA rest :
                      IF ~rest.ok THEN rest
                      ELSE [ok |-> TRUE, results |-> strings.results \o rest.results]))

extractPageText(page) ==
    Let(getContentStreams(page), LAMBDA found :
        IF ~found.ok THEN found
        ELSE IF Len(found.streams) = 0 THEN Text(<< >>)
        ELSE Let(TokensFrom(found.streams, 1), LAMBDA tokens :
                 IF ~tokens.ok THEN tokens
                 ELSE Text(join(SelectSeq(Map(tokens.results, CollapseSpace),
                                          LAMBDA token : Len(token) > 0), <<LF>>))))

\* s.replace(/\s+\n/g, "\n"): in a maximal run of white space, what reaches up to
\* the last line feed becomes one line feed, unless that line feed opens the run.
RECURSIVE StripSpaceBeforeBreakFrom(_, _)
StripSpaceBeforeBreakFrom(s, i) ==
    LET LastBreak(j) ==
            LET breaks == {k \in (j + 1)..(RunEnd(s, j, JsWhiteSpace) - 1) : s[k] = LF}
            IN  IF breaks = {} THEN 0 ELSE Max(breaks)
        matches == {j \in i..Len(s) : s[j] \in JsWhiteSpace /\ LastBreak(j) > 0}
    IN  IF matches = {} THEN SubSeq(s, i, Len(s))
        ELSE LET j == Min(matches)
             IN  SubSeq(s, i, j - 1) \o <<LF>> \o StripSpaceBeforeBreakFrom(s, LastBreak(j) + 1)

StripSpaceBeforeBreak(s) == StripSpaceBeforeBreakFrom(s, 1)

\* The pagerender callback given to pdf-parse: the text of one page.
renderPage(items) ==
    LET raw == join(Map(items, LAMBDA item :
                       IF Len(item.str) = 0 THEN << >>
                       ELSE IF item.hasEOL THEN Append(item.str, LF) ELSE item.str), <<SP>>)
        s1 == StripSpaceBeforeBreak(raw)
        s2 == ReplaceRuns(s1, {SP, TAB}, 1, <<SP>>)
        s3 == ReplaceRuns(s2, {LF}, 3, <<LF, LF>>)
    IN  trim(s3)

\* extractTextPages: the rendered pages, padded with "" up to expectedPages; all ""
\* when pdf-parse throws.
extractTextPages(buffer, expectedPages) ==
    IF ~buffer.parsed.ok THEN [k \in 1..expectedPages |-> << >>]
    ELSE Let(Map(buffer.parsed.pages, renderPage), LAMBDA pageTexts :
             IF Len(pageTexts) < expectedPages
             THEN pageTexts \o [k \in 1..(expectedPages - Len(pageTexts)) |-> << >>]
             ELSE pageTexts)

\* text.split(/\r?\n/): split at line feeds; a carriage return right before a line
\* feed belongs to the separator.
SplitLines(text) ==
    LET pieces == split(text, LF)
    IN  [k \in 1..Len(pieces) |->
            IF k < Len(pieces) /\ Len(pieces[k]) > 0 /\ pieces[k][Len(pieces[k])] = CR
            THEN SubSeq(pieces[k], 1, Len(pieces[k]) - 1)
            ELSE pieces[k]]

chunkPageText(text, page) ==
    Let(join(SelectSeq(Map(SplitLines(text), trim), LAMBDA line : Len(line) > 0), <<LF>>),
        LAMBDA lines :
        IF Len(lines) = 0 THEN << >>
        ELSE Let(SelectSeq(Map(SplitParagraphs(lines), CollapseSpace),
                           LAMBDA block : Len(block) > 0),
                 LAMBDA paragraphs :
                 IF Len(paragraphs) = 0 THEN <<TextChunk("paragraph", lines, page)>>
                 ELSE Map(paragraphs,
                          LAMBDA paragraph : TextChunk(IF isHeading(paragraph) THEN "heading"
                                                       ELSE "paragraph", paragraph, page))))

\* pdf-lib's lookup and lookupMaybe throw when the entry is there but is not of
\* the type asked for.
UnexpectedObjectType == Thrown(<<"UnexpectedObjectTypeError">>)
StackOverflow == Thrown(<<"Maximum call stack size exceeded">>)

\* getFilterNames of a Filter entry that is absent, one name, or an array of names.
getFilterNames(filter) ==
    IF filter.kind = "none" THEN << >>
    ELSE IF filter.kind = "name" THEN <<filter.names[1]>>
    ELSE filter.names

DeviceColorSpaces == {"DeviceRGB", "DeviceGray", "DeviceCMYK"}

\* A color space kind, or `null` as NoColorSpace.
NoColorSpace == "null"
ColorSpace(kind) == [ok |-> TRUE, kind |-> kind]

\* resolveColorSpace for a name (or no value, ""): a device space is itself; another
\* name is looked up in the ColorSpace dictionary of the resources and, when it is
\* an array there, the array's first name is resolved in turn.  Nothing bounds the
\* recursion: names that lead back to themselves overflow the stack.
RECURSIVE ResolveColorSpaceName(_, _, _)
ResolveColorSpaceName(name, resources, seen) ==
    IF name = "" THEN ColorSpace("DeviceRGB")
    ELSE IF name \in DeviceColorSpaces THEN ColorSpace(name)
    ELSE IF name \in seen THEN StackOverflow
    ELSE IF resources.colorSpaces.kind = "none" THEN ColorSpace(NoColorSpace)
    ELSE IF resources.colorSpaces.kind # "dict" THEN UnexpectedObjectType
    ELSE IF name \notin DOMAIN resources.colorSpaces.entries THEN ColorSpace(NoColorSpace)
    ELSE LET referenced == resources.colorSpaces.entries[name]
         IN  IF referenced.kind # "array" THEN UnexpectedObjectType
             ELSE IF referenced.first.kind = "other" THEN UnexpectedObjectType
             ELSE ResolveColorSpaceName(referenced.first.name, resources, seen \cup {name})

\* resolveColorSpace of a ColorSpace entry that is absent, a name, or an array.
resolveColorSpace(value, resources) ==
    IF value.kind = "none" THEN ColorSpace("DeviceRGB")
    ELSE IF value.kind = "name" THEN ResolveColorSpaceName(value.name, resources, {})
    ELSE IF value.first.kind = "other" THEN UnexpectedObjectType
    ELSE IF value.first.name = "" THEN ColorSpace(NoColorSpace)
    ELSE ResolveColorSpaceName(value.first.name, resources, {})

NoChannels == 0

getChannelCount(colorSpace) ==
    CASE colorSpace = "DeviceGray" -> 1
      [] colorSpace = "DeviceRGB" -> 3
      [] colorSpace = "DeviceCMYK" -> 4
      [] OTHER -> NoChannels

DEFAULT_BITS_PER_COMPONENT == 8

\* A PNG buffer, or `null`.
Png(has) == [ok |-> TRUE, png |-> has]
\* The PNG buffer sharp makes of raw samples that it is told have this many channels.
Raster(channels) == [ok |-> TRUE, png |-> TRUE, channels |-> channels]

\* What sharp does with the bytes it is given: the promise of toBuffer() resolves
\* to a PNG; or sharp(...) throws at once, as its constructor does on an empty
\* buffer and on raw pixels whose width or height is no positive integer; or the
\* promise rejects, as it does on bytes that are no image of the stated kind
\* (stream.sharp is "resolves", "throws" or "rejects").
\*
\* convertImageStreamToPng.  The Filter and ColorSpace entries are first asked for
\* as names, which throws on an array; Width and Height must be numbers.  Inside
\* the try, a stream decoder that throws and a sharp call that throws are caught
\* and give null; the promise of sharp is returned without await, so its rejection
\* is not caught and rejects the conversion.
IsCompressedImage(name) == name = "DCTDecode" \/ name = "JPXDecode"

RasterPng(stream, colorSpace) ==
    IF ~stream.decodes THEN Png(FALSE)
    ELSE IF getChannelCount(IF colorSpace = NoColorSpace THEN "DeviceRGB" ELSE colorSpace)
               = NoChannels
    THEN Png(FALSE)
    ELSE IF stream.sharp = "resolves"
    THEN Raster(getChannelCount(IF colorSpace = NoColorSpace THEN "DeviceRGB"
                                ELSE colorSpace))
    ELSE IF stream.sharp = "throws" THEN Png(FALSE)
    ELSE Thrown(<<"Input buffer contains unsupported image format">>)

convertImageStreamToPng(stream, resources) ==
    IF stream.filter.kind = "array" \/ stream.colorSpace.kind = "array"
    THEN UnexpectedObjectType
    ELSE Let(resolveColorSpace(stream.colorSpace, resources), LAMBDA colorSpace :
         Let(getFilterNames(stream.filter), LAMBDA filterNames :
             IF ~colorSpace.ok THEN colorSpace
             ELSE IF ~stream.hasSize THEN UnexpectedObjectType
             ELSE IF \E k \in 1..Len(filterNames) : IsCompressedImage(filterNames[k])
             THEN IF stream.sharp = "resolves" THEN Png(TRUE)
                  ELSE IF stream.sharp = "throws" THEN Png(FALSE)
                  ELSE Thrown(<<"Input buffer contains unsupported image format">>)
             ELSE IF /\ \A k \in 1..Len(filterNames) : filterNames[k] = "FlateDecode"
                     /\ stream.class = "PDFRawStream"
                     /\ (IF stream.bits = 0 THEN DEFAULT_BITS_PER_COMPONENT ELSE stream.bits)
                            = DEFAULT_BITS_PER_COMPONENT
             THEN RasterPng(stream, colorSpace.kind)
             ELSE Png(FALSE)))

\* The first loop of extractImageTexts: the image streams of the XObject
\* dictionary that convert to PNG, in the dictionary's order.
RECURSIVE ImagesFrom(_, _, _)
ImagesFrom(entries, k, resources) ==
    IF k > Len(entries) THEN [ok |-> TRUE, images |-> << >>]
    ELSE IF entries[k].kind = "missing" THEN ImagesFrom(entries, k + 1, resources)
    ELSE IF entries[k].kind # "stream" THEN UnexpectedObjectType
    ELSE IF entries[k].subtype # "Image" THEN ImagesFrom(entries, k + 1, resources)
    ELSE Let(convertImageStreamToPng(entries[k], resources), LAMBDA png :
             IF ~png.ok THEN png
             ELSE Let(ImagesFrom(entries, k + 1, resources), LAMBDA rest :
                      IF ~rest.ok THEN rest
                      ELSE [ok |-> TRUE,
                            images |-> (IF png.png THEN <<entries[k]>> ELSE << >>)
                                          \o rest.images]))

\* "[OCR Error] "
OcrErrorPrefix == <<91, 79, 67, 82, 32, 69, 114, 114, 111, 114, 93, 32>>

\* The classes that implement OcrProvider.
OcrProviders == {"TesseractOcrProvider", "OpenAIVisionOcrProvider"}

\* provider.recognize(image): Tesseract trims the text and rejects when the
\* engine fails; the OpenAI provider trims the text and answers an engine failure
\* with a text that starts "[OCR Error] ".
recognize(provider, image) ==
    IF image.ocr.ok THEN Text(trim(image.ocr.text))
    ELSE IF provider = "OpenAIVisionOcrProvider"
    THEN Text(OcrErrorPrefix \o image.ocr.text)
    ELSE Thrown(<<"Error attempting to read image.">>)

\* process.env.OPENAI_API_KEY: not set (or empty), set to a key the OpenAI client
\* is constructed with, or set while the construction of the client throws.
OpenAiKeys == {"unset", "accepted", "refused"}

\* new OpenAIVisionOcrProvider(): throws without a key and when new OpenAI throws.
newOpenAIVisionOcrProvider(openaiKey) ==
    IF openaiKey = "accepted" THEN [ok |-> TRUE, provider |-> "OpenAIVisionOcrProvider"]
    ELSE IF openaiKey = "unset"
    THEN Thrown(<<"[OpenAIVisionOcrProvider] Missing OPENAI_API_KEY. Pass it via options or "
                  \o "environment variable.">>)
    ELSE Thrown(<<"The OpenAI client could not be constructed.">>)

\* createDefaultOcrProvider: the OpenAI provider when the key is set and the
\* provider constructs; the Tesseract provider otherwise, the error being caught.
createDefaultOcrProvider(openaiKey) ==
    IF openaiKey # "unset" /\ newOpenAIVisionOcrProvider(openaiKey).ok
    THEN newOpenAIVisionOcrProvider(openaiKey).provider
    ELSE "TesseractOcrProvider"

\* getOrCreateOcrProvider selecting the default provider at every call.
getOrCreateOcrProvider_Always(ocrProvider, openaiKey) == createDefaultOcrProvider(openaiKey)

NoProvider == "null"

\* getOrCreateOcrProvider: the provider of the extractor after the call.
getOrCreateOcrProvider(ocrProvider, openaiKey) ==
    IF ocrProvider = NoProvider THEN createDefaultOcrProvider(openaiKey) ELSE ocrProvider

(***************************************************************************)
(* The ImageExtractor: sharp reads the metadata, the provider the text.     *)
(***************************************************************************)
\* metadata.format ? `image/${metadata.format}` : "image/unknown": whatever format
\* sharp reports ("" is undefined).
ImageMime(format) == IF format = "" THEN "image/unknown" ELSE "image/" \o format

\* The code units of the file names of the sample inputs.
FileNameText(fileName) ==
    CASE fileName = "archive.zip" ->
           <<97, 114, 99, 104, 105, 118, 101, 46, 122, 105, 112>>
      [] fileName = "corrupt.pdf" ->
           <<99, 111, 114, 114, 117, 112, 116, 46, 112, 100, 102>>
      [] fileName = "data.xlsx" ->
           <<100, 97, 116, 97, 46, 120, 108, 115, 120>>
      [] fileName = "data.tsv" ->
           <<100, 97, 116, 97, 46, 116, 115, 118>>
      [] fileName = "empty.csv" ->
           <<101, 109, 112, 116, 121, 46, 99, 115, 118>>
      [] fileName = "letter.doc" ->
           <<108, 101, 116, 116, 101, 114, 46, 100, 111, 99>>
      [] fileName = "letter.docx" ->
           <<108, 101, 116, 116, 101, 114, 46, 100, 111, 99, 120>>
      [] fileName = "page.xhtml" ->
           <<112, 97, 103, 101, 46, 120, 104, 116, 109, 108>>
      [] fileName = "photo.jpg" ->
           <<112, 104, 111, 116, 111, 46, 106, 112, 103>>
      [] fileName = "blank.gif" ->
           <<98, 108, 97, 110, 107, 46, 103, 105, 102>>
      [] fileName = "photo.jpeg" ->
           <<112, 104, 111, 116, 111, 46, 106, 112, 101, 103>>
      [] fileName = "report.pdf" ->
           <<114, 101, 112, 111, 114, 116, 46, 112, 100, 102>>
      [] fileName = "scan.pdf" ->
           <<115, 99, 97, 110, 46, 112, 100, 102>>
      [] fileName = "deck.ppt" ->
           <<100, 101, 99, 107, 46, 112, 112, 116>>
      [] fileName = "notes.md" ->
           <<110, 111, 116, 101, 115, 46, 109, 100>>
      [] fileName = "notes.txt" ->
           <<110, 111, 116, 101, 115, 46, 116, 120, 116>>
      [] fileName = "data.xls" ->
           <<100, 97, 116, 97, 46, 120, 108, 115>>

\* `[Image: ${fileName}] \u2014 OCR not configured. Provide an OcrProvider to extract
\* text from images.`: the chunk text of an ImageExtractor without a provider.
OcrNotConfigured(fileName) ==
    <<91, 73, 109, 97, 103, 101, 58, 32>> \o FileNameText(fileName) \o
    <<
      93, 32, 8212, 32, 79, 67, 82, 32, 110, 111, 116, 32, 99, 111, 110, 102, 105, 103,
      117, 114, 101, 100, 46, 32, 80, 114, 111, 118, 105, 100, 101, 32, 97, 110, 32, 79,
      99, 114, 80, 114, 111, 118, 105, 100, 101, 114, 32, 116, 111, 32, 101, 120, 116, 114,
      97, 99, 116, 32, 116, 101, 120, 116, 32, 102, 114, 111, 109, 32, 105, 109, 97, 103,
      101, 115, 46
    >>

\* ocrProvider is the provider set with setOcrProvider, NoProvider when none was
\* set (the router sets a TesseractOcrProvider).  buffer.format is sharp's
\* metadata.format ("" when undefined); buffer.ocr is what the OCR engine reads in
\* the preprocessed image, the provider's recognize making its text of it.  A
\* buffer sharp reads no image in rejects at image.metadata().
ImageExtractor_extract(buffer, fileName, used, ocrProvider) ==
    IF buffer.kind # "image" THEN Failure(<<"Input buffer contains unsupported image format">>)
    ELSE Let(IF ocrProvider = NoProvider THEN Text(<< >>) ELSE recognize(ocrProvider, buffer),
             LAMBDA recognizedText :
             IF ~recognizedText.ok THEN Failure(recognizedText.error)
             ELSE [ok |-> TRUE,
                   doc |-> [documentId |-> uuidv4(used),
                            fileName |-> fileName,
                            mimeType |-> ImageMime(buffer.format),
                            metadata |-> [format |-> buffer.format,
                                          ocrEnabled |-> ocrProvider # NoProvider],
                            chunks |->
                              IF ocrProvider = NoProvider
                              THEN <<[id |-> << >>, type |-> "paragraph",
                                      text |-> OcrNotConfigured(fileName),
                                      page |-> NoPage, section |-> NoSection]>>
                              ELSE IF Len(trim(recognizedText.text)) > 0
                              THEN <<[id |-> << >>, type |-> "paragraph",
                                      text |-> recognizedText.text,
                                      page |-> NoPage, section |-> NoSection]>>
                              ELSE << >>]])

(***************************************************************************)
(* extractImageTexts of the PDF extractor, continued.                      *)
(***************************************************************************)
\* The second loop of extractImageTexts.
RECURSIVE RecognizeFrom(_, _, _)
RecognizeFrom(images, k, provider) ==
    IF k > Len(images) THEN [ok |-> TRUE, results |-> << >>]
    ELSE Let(recognize(provider, images[k]), LAMBDA recognized :
             IF ~recognized.ok THEN recognized
             ELSE Let(RecognizeFrom(images, k + 1, provider), LAMBDA rest :
                      IF ~rest.ok THEN rest
                      ELSE [ok |-> TRUE,
                            results |-> (IF Len(trim(recognized.text)) > 0
                                         THEN <<trim(recognized.text)>> ELSE << >>)
                                           \o rest.results]))

\* extractImageTexts: the texts, and the extractor's provider afterwards; or the
\* error thrown, the provider being left as it was at the throw.
extractImageTexts(page, ocrProvider, openaiKey) ==
    IF ~page.resources.present \/ page.resources.xObjects.kind = "none"
    THEN [ok |-> TRUE, results |-> << >>, ocrProvider |-> ocrProvider]
    ELSE IF page.resources.xObjects.kind # "dict"
    THEN UnexpectedObjectType @@ [ocrProvider |-> ocrProvider]
    ELSE Let(ImagesFrom(page.resources.xObjects.entries, 1, page.resources), LAMBDA found :
             IF ~found.ok THEN found @@ [ocrProvider |-> ocrProvider]
             ELSE IF Len(found.images) = 0
             THEN [ok |-> TRUE, results |-> << >>, ocrProvider |-> ocrProvider]
             ELSE Let(getOrCreateOcrProvider(ocrProvider, openaiKey), LAMBDA provider :
                      RecognizeFrom(found.images, 1, provider)
                          @@ [ocrProvider |-> provider]))

\* The image chunks of one page labelled from image-0.
ImageChunks_FromZero(imageTexts, pageNumber) ==
    [k \in 1..Len(imageTexts) |->
        [id |-> << >>, type |-> "image", text |-> imageTexts[k], page |-> pageNumber,
         section |-> <<"image", k - 1>>]]

\* The image chunks of one page, labelled image-1, image-2, ... in order.
ImageChunks(imageTexts, pageNumber) ==
    [k \in 1..Len(imageTexts) |->
        [id |-> << >>, type |-> "image", text |-> imageTexts[k], page |-> pageNumber,
         section |-> <<"image", k>>]]

\* The text of a page with the content streams read first and the structured
\* text used when they hold no text.
PageTextOf_StreamsFirst(page, structured) ==
    Let(extractPageText(page), LAMBDA fallback :
        IF ~fallback.ok THEN fallback
        ELSE IF Len(trim(fallback.text)) > 0 THEN Text(trim(fallback.text))
        ELSE Text(structured))

\* The text of a page: its structured text, trimmed, or when that is empty the
\* trimmed text of its content streams (which may throw).
PageTextOf(page, structured) ==
    IF Len(structured) > 0 THEN Text(structured)
    ELSE Let(extractPageText(page), LAMBDA fallback :
             IF fallback.ok THEN Text(trim(fallback.text)) ELSE fallback)

\* pageChunks: no chunk for a page without text.
PageTextChunks(text, pageNumber) ==
    IF Len(text) > 0 THEN chunkPageText(text, pageNumber) ELSE << >>

\* The chunks of one page in push order, with the image chunks pushed first.
PageChunks_ImagesFirst(textChunks, imageChunks) == imageChunks \o textChunks

\* The chunks of one page in push order: the text chunks, then the image chunks.
PageChunks(textChunks, imageChunks) == textChunks \o imageChunks

\* The page loop of extract in the pdf-lib extractor, from page `pageNumber` on:
\* the chunks and imageOcrPages gathered and the extractor's provider at the end,
\* or the error that ended the loop.
RECURSIVE PdfLibPagesFrom(_, _, _, _, _, _, _)
PdfLibPagesFrom(buffer, pageTexts, pageNumber, chunks, imageOcrPages, ocrProvider, openaiKey) ==
    IF pageNumber > Len(buffer.pages)
    THEN [ok |-> TRUE, chunks |-> chunks, imageOcrPages |-> imageOcrPages,
          ocrProvider |-> ocrProvider]
    ELSE Let(PageTextOf(buffer.pages[pageNumber], trim(pageTexts[pageNumber])), LAMBDA text :
             IF ~text.ok THEN text @@ [ocrProvider |-> ocrProvider]
             ELSE Let(extractImageTexts(buffer.pages[pageNumber], ocrProvider, openaiKey),
                      LAMBDA imageTexts :
                      IF ~imageTexts.ok THEN imageTexts
                      ELSE PdfLibPagesFrom(buffer, pageTexts, pageNumber + 1,
                               chunks \o PageChunks(PageTextChunks(text.text, pageNumber),
                                                    ImageChunks(imageTexts.results,
                                                                pageNumber)),
                               IF Len(imageTexts.results) > 0
                               THEN Append(imageOcrPages, pageNumber) ELSE imageOcrPages,
                               imageTexts.ocrProvider, openaiKey)))

\* extract of the pdf-lib extractor.  PDFDocument.load rejects on a buffer that is
\* no PDF.  The result carries the extractor's provider after the call.
PdfExtractor_extract_pdflib(buffer, fileName, used, ocrProvider, openaiKey) ==
    IF buffer.kind # "pdf"
    THEN Failure(<<"Failed to parse PDF document">>) @@ [ocrProvider |-> ocrProvider]
    ELSE Let(PdfLibPagesFrom(buffer, extractTextPages(buffer, Len(buffer.pages)), 1,
                             << >>, << >>, ocrProvider, openaiKey),
             LAMBDA loop :
             IF ~loop.ok THEN loop
             ELSE [ok |-> TRUE,
                   ocrProvider |-> loop.ocrProvider,
                   doc |-> [documentId |-> uuidv4(used),
                            fileName |-> fileName,
                            mimeType |-> "application/pdf",
                            metadata |-> [pageCount |-> Len(buffer.pages),
                                          imageOcrPages |-> loop.imageOcrPages],
                            chunks |-> loop.chunks]])

\* The chunks one page contributes in the plain pdfjs extractor (no sparse branch).
PlainPdfPageChunks(items, pageNum) ==
    LET pageText == PageText(items)
        paragraphs == SelectSeq(Map(SplitParagraphs(pageText), trim),
                                LAMBDA para : Len(para) > 0)
    IN  IF Len(trim(pageText)) = 0 THEN << >>
        ELSE IF Len(paragraphs) = 0 THEN <<TextChunk("paragraph", pageText, pageNum)>>
        ELSE Map(paragraphs,
                 LAMBDA para : TextChunk(IF isHeading(para) THEN "heading"
                                         ELSE "paragraph", para, pageNum))

RECURSIVE PlainPdfChunksFrom(_, _)
PlainPdfChunksFrom(pages, pageNum) ==
    IF pageNum > Len(pages) THEN << >>
    ELSE PlainPdfPageChunks(pages[pageNum].items, pageNum)
            \o PlainPdfChunksFrom(pages, pageNum + 1)

\* extract of the plain pdfjs extractor.
PdfExtractor_extract_plain(buffer, fileName, used) ==
    IF buffer.kind # "pdf" THEN Failure(<<"Invalid PDF structure.">>)
    ELSE IF \E n \in 1..Len(buffer.pages) : buffer.pages[n].textFails
    THEN Failure(<<"Unable to read page text.">>)
    ELSE [ok |-> TRUE,
          doc |-> [documentId |-> uuidv4(used),
                   fileName |-> fileName,
                   mimeType |-> "application/pdf",
                   metadata |-> [pageCount |-> Len(buffer.pages)],
                   chunks |-> PlainPdfChunksFrom(buffer.pages, 1)]]

(***************************************************************************)
(* router.ts: ExtractorRouter.  An extractor of the registry is its name   *)
(* and the MIME types its supports() accepts.                              *)
(***************************************************************************)
Extractor(name, types) == [name |-> name, types |-> types]

supports(extractor, mimeType) == mimeType \in extractor.types

\* The registry after the constructor: the built-in extractors in priority order.
BuiltInExtractors ==
    << Extractor("PdfExtractor", PDF_SUPPORTED_TYPES),
       Extractor("DocxExtractor", DOCX_SUPPORTED_TYPES),
       Extractor("ExcelExtractor", EXCEL_SUPPORTED_TYPES),
       Extractor("CsvExtractor", CSV_SUPPORTED_TYPES),
       Extractor("PptxExtractor", PPTX_SUPPORTED_TYPES),
       Extractor("HtmlExtractor", HTML_SUPPORTED_TYPES),
       Extractor("ImageExtractor", IMAGE_SUPPORTED_TYPES) >>

\* register: this.extractors.push(extractor)
register(registry, extractor) == Append(registry, extractor)

\* Array.prototype.find: the first element from index i on that supports mimeType.
RECURSIVE FindFrom(_, _, _)
FindFrom(registry, mimeType, i) ==
    IF i > Len(registry) THEN [found |-> FALSE, name |-> "", index |-> 0]
    ELSE IF supports(registry[i], mimeType)
         THEN [found |-> TRUE, name |-> registry[i].name, index |-> i]
         ELSE FindFrom(registry, mimeType, i + 1)

\* A find that keeps the last match instead of the first.
RECURSIVE FindLastFrom(_, _, _)
FindLastFrom(registry, mimeType, i) ==
    IF i < 1 THEN [found |-> FALSE, name |-> "", index |-> 0]
    ELSE IF supports(registry[i], mimeType)
         THEN [found |-> TRUE, name |-> registry[i].name, index |-> i]
         ELSE FindLastFrom(registry, mimeType, i - 1)

route_LastMatch(registry, mimeType) ==
    LET hit == FindLastFrom(registry, mimeType, Len(registry))
    IN  IF hit.found THEN [ok |-> TRUE, index |-> hit.index, name |-> hit.name, error |-> << >>]
        ELSE [ok |-> FALSE, index |-> 0, name |-> "",
              error |-> <<"No extractor registered for MIME type: ", mimeType>>]

\* route: the extractor found, or the thrown Error.
route(registry, mimeType) ==
    LET hit == FindFrom(registry, mimeType, 1)
    IN  IF hit.found THEN [ok |-> TRUE, index |-> hit.index, name |-> hit.name, error |-> << >>]
        ELSE [ok |-> FALSE, index |-> 0, name |-> "",
              error |-> <<"No extractor registered for MIME type: ", mimeType>>]

\* A custom extractor, as the README registers one.  It reads the buffer as
\* plain text and returns one paragraph chunk.
CustomExtractor_extract(buffer, fileName, used) ==
    IF buffer.kind # "text" THEN Failure(<<"Unsupported content">>)
    ELSE [ok |-> TRUE,
          doc |-> [documentId |-> uuidv4(used),
                   fileName |-> fileName,
                   mimeType |-> "text/markdown",
                   metadata |-> [custom |-> TRUE],
                   chunks |-> <<[id |-> << >>, type |-> "paragraph", text |-> buffer.text,
                                 page |-> NoPage, section |-> NoSection]>>]]

\* extractor.extract(buffer, fileName): dynamic dispatch on the extractor routed to.
\* The constructor of the router gives its ImageExtractor a TesseractOcrProvider.
extract(name, buffer, fileName, used) ==
    CASE name = "PdfExtractor" -> PdfExtractor_extract(buffer, fileName, used)
      [] name = "DocxExtractor" -> DocxExtractor_extract(buffer, fileName, used)
      [] name = "ExcelExtractor" -> ExcelExtractor_extract(buffer, fileName, used)
      [] name = "CsvExtractor" -> CsvExtractor_extract(buffer, fileName, used)
      [] name = "PptxExtractor" -> PptxExtractor_extract(buffer, fileName, used)
      [] name = "HtmlExtractor" -> HtmlExtractor_extract(buffer, fileName, used)
      [] name = "ImageExtractor" ->
           ImageExtractor_extract(buffer, fileName, used, "TesseractOcrProvider")
      [] OTHER -> CustomExtractor_extract(buffer, fileName, used)

\* normalizeDocument({ ...raw, mimeType }) without the mimeType override.
finishProcess_KeepMime(raw, mimeType, used) ==
    [ok |-> TRUE, doc |-> normalizeDocument(raw, used)]

\* The tail of process: normalizeDocument({ ...raw, mimeType }).
finishProcess(raw, mimeType, used) ==
    [ok |-> TRUE, doc |-> normalizeDocument([raw EXCEPT !.mimeType = mimeType], used)]

\* process: route, extract, override mimeType, normalize.  A throw of route or
\* a rejection of extract rejects process with that error.
process(registry, buffer, fileName, mimeType, used) ==
    LET extractor == route(registry, mimeType)
    IN  IF ~extractor.ok THEN Failure(extractor.error)
        ELSE LET raw == extract(extractor.name, buffer, fileName, used)
             IN  IF ~raw.ok THEN raw
                 ELSE finishProcess(raw.doc, mimeType, used + 1)

(***************************************************************************)
(* Values of variables a specification does not use.                       *)
(***************************************************************************)
NoText == [done |-> FALSE, text |-> << >>]
NoDoc == [done |-> FALSE]

IdleText == rawText = << >> /\ normalized = NoText /\ renormalized = NoText
IdleNorm == rawDoc = NoDoc /\ normDoc = NoDoc /\ renormDoc = NoDoc
NoCall == [called |-> FALSE]
IdleRouter == extractors = << >> /\ routed = NoCall /\ processed = << >>
IdleExtract ==
    /\ given = NoCall /\ extracted = NoCall /\ finished = NoDoc /\ recognition = NoCall
    /\ conversion = NoCall /\ instance = NoCall
IdlePost ==
    /\ request = NoCall /\ tasks = << >> /\ processCalls = {} /\ response = NoCall
IdleLexer == lexInput = << >> /\ lexed = NoCall
IdleOcrClient == ocrCall = NoCall /\ ocrRun = NoCall

\* Code units that normalizeText removes or trims away when nothing else is left:
\* white space, null bytes, form feeds and the zero-width characters.
BlankUnits == JsWhiteSpace \cup {NUL, FF, NBSP, ZWSP, ZWNJ, ZWJ, BOM}
IsBlankText(text) == \A i \in 1..Len(text) : text[i] \in BlankUnits

(***************************************************************************)
(* Sample buffers: one per built-in extractor, a plain text for a custom   *)
(* extractor, and a corrupt one that no parsing library accepts.           *)
(***************************************************************************)
Rep(unit, n) == [i \in 1..n |-> unit]

TextItem(str) == [hasStr |-> TRUE, str |-> str, hasEOL |-> FALSE]
MarkedContent == [hasStr |-> FALSE, str |-> << >>, hasEOL |-> FALSE]
Page(items) == [items |-> items, textFails |-> FALSE]

\* Two pages: a text-rich one (a heading, a blank line, a paragraph) and a sparse one.
BufPdf ==
    [kind |-> "pdf",
     pages |-> << Page(<<TextItem(Rep(65, 30) \o <<LF, LF>> \o Rep(LetterA, 30)),
                         MarkedContent, TextItem(<<NUL, LetterB>>)>>),
                  Page(<<TextItem(<<SP, LetterA, ZWSP>>)>>) >>]
\* A PDF whose second page cannot be read.
BufPdfBadPage ==
    [kind |-> "pdf",
     pages |-> << Page(<<TextItem(Rep(LetterA, 60))>>),
                  [items |-> << >>, textFails |-> TRUE] >>]
BufCorrupt == [kind |-> "corrupt"]
\* "a\tb\n1\t\n" and a file of two line feeds.
BufCsv == [kind |-> "csv", text |-> <<LetterA, TAB, LetterB, LF, 49, TAB, LF>>]
BufCsvEmpty == [kind |-> "csv", text |-> <<LF, LF>>]
BufXlsx ==
    [kind |-> "xlsx",
     sheets |-> << [name |-> <<LetterA>>, id |-> 1, rows |-> << <<<<LetterA>>>> >>],
                   [name |-> << >>, id |-> 2, rows |-> << <<<<SP>>>>, <<<<LetterB>>>> >>],
                   [name |-> <<LetterB>>, id |-> 3, rows |-> << >>] >>]
BufPptx ==
    [kind |-> "pptx",
     slides |-> << <<<<SP, LetterA>>, << >>, <<LetterB, SP>>>>, << >>, <<<<ZWSP>>>> >>]
BufImage ==
    [kind |-> "image", format |-> "png",
     ocr |-> [ok |-> TRUE, text |-> <<LetterA, LF, LetterB, SP>>]]
BufImageBlank ==
    [kind |-> "image", format |-> "", ocr |-> [ok |-> TRUE, text |-> <<SP, LF>>]]
BufImageOcrFails ==
    [kind |-> "image", format |-> "jpeg", ocr |-> [ok |-> FALSE, text |-> << >>]]
BufDocx ==
    [kind |-> "docx", warnings |-> << >>, rawText |-> <<LetterA>>,
     elements |-> << [tag |-> "h1", inner |-> <<SP, 65>>],
                     [tag |-> "p", inner |-> << >>],
                     [tag |-> "li", inner |-> <<LetterA, FF>>],
                     [tag |-> "tr", inner |-> <<NUL>>] >>]
BufDocxRaw ==
    [kind |-> "docx", warnings |-> << >>, elements |-> << >>,
     rawText |-> <<LetterA, LF, LF, LF, SP, LF, LF, LetterB, LF, LetterA>>]
\* "<title> a</title><p>a\t b</p><p>\u200B</p><p>a\nb"
BufHtml ==
    [kind |-> "html",
     text |->
       <<60, 116, 105, 116, 108, 101, 62, 32, 97, 60, 47, 116, 105, 116, 108, 101, 62, 60, 112,
       62, 97, 9, 32, 98, 60, 47, 112, 62, 60, 112, 62, 8203, 60, 47, 112, 62, 60, 112,
       62, 97, 10, 98>>]
BufText == [kind |-> "text", text |-> <<LetterA, SP, SP, LetterB>>]

(***************************************************************************)
(* SpecRouter: a router after its constructor; custom extractors are       *)
(* registered (at most MaxCustom), route is called with any media type of  *)
(* MediaTypes, and process is called with inputs of ProcessInputs.        *)
(***************************************************************************)
MaxCustom == 2

\* The callers of process: each calls once, and the second may call while the
\* first call waits for its extractor.
Callers == {"first", "second"}

\* Custom extractors: the README's MarkdownExtractor, and one that also claims
\* application/pdf, which the built-in PdfExtractor wins.
CustomExtractors ==
    { Extractor("MarkdownExtractor", {"text/markdown"}),
      Extractor("PlainPdfExtractor", {"application/pdf", "text/plain"}) }

MediaTypes ==
    {"application/pdf", "text/tab-separated-values", "image/jpg", "text/markdown",
     "text/plain", "application/zip", ""}

Input(buffer, fileName, mimeType) ==
    [buffer |-> buffer, fileName |-> fileName, mimeType |-> mimeType]

ProcessInputs ==
    { Input(BufPdf, "report.pdf", "application/pdf"),
      Input(BufPdfBadPage, "scan.pdf", "application/pdf"),
      Input(BufCorrupt, "corrupt.pdf", "application/pdf"),
      Input(BufCsv, "data.tsv", "text/tab-separated-values"),
      Input(BufCsvEmpty, "empty.csv", "application/csv"),
      Input(BufXlsx, "data.xls", "application/vnd.ms-excel"),
      Input(BufCorrupt, "data.xlsx",
            "application/vnd.openxmlformats-officedocument.spreadsheetml.sheet"),
      Input(BufPptx, "deck.ppt", "application/vnd.ms-powerpoint"),
      Input(BufImage, "photo.jpg", "image/jpg"),
      Input(BufImageBlank, "blank.gif", "image/gif"),
      Input(BufImageOcrFails, "photo.jpeg", "image/jpeg"),
      Input(BufDocx, "letter.doc", "application/msword"),
      Input(BufDocxRaw, "letter.docx",
            "application/vnd.openxmlformats-officedocument.wordprocessingml.document"),
      Input(BufHtml, "page.xhtml", "application/xhtml+xml"),
      Input(BufText, "notes.md", "text/markdown"),
      Input(BufText, "notes.txt", "text/plain"),
      Input(BufCorrupt, "archive.zip", "application/zip") }

InitRouter ==
    /\ IdleText
    /\ IdleNorm
    /\ IdleExtract
    /\ IdlePost
    /\ IdleLexer
    /\ IdleOcrClient
    /\ uuidCount = 0
    /\ extractors = BuiltInExtractors
    /\ routed = NoCall
    /\ processed = << >>

Register(extractor) ==
    /\ Len(extractors) < Len(BuiltInExtractors) + MaxCustom
    /\ extractors' = register(extractors, extractor)
    /\ UNCHANGED <<routed, processed, uuidCount, textVars, normVars, extractVars, postVars, lexVars, clientVars>>

Route(mimeType) ==
    /\ routed' = [called |-> TRUE, mimeType |-> mimeType,
                  result |-> route(extractors, mimeType)]
    /\ UNCHANGED <<extractors, processed, uuidCount, textVars, normVars, extractVars, postVars, lexVars, clientVars>>

\* The extractors whose extract has no await: a call of it runs to its return, and
\* draws the documentId, before the caller goes on.
ExtractorsWithoutAwait == {"CsvExtractor", "HtmlExtractor"}

\* A call of process, up to the first await: route throws or gives the extractor,
\* and extract is called.  A throw of route rejects process: the call has settled,
\* raw being the error of route with no extractor called.  An extract without an
\* await has run to its return by then (its documentId drawn, or its rejection
\* made), and process waits with that in hand; any other extract is pending at its
\* own first await, and raw is not there yet.
ProcessCall(input) ==
    /\ Len(processed) < Cardinality(Callers)
    /\ Let(route(extractors, input.mimeType), LAMBDA extractor :
         IF ~extractor.ok
         THEN /\ processed' =
                   Append(processed,
                          [input |-> input, extractor |-> extractor, extracted |-> TRUE,
                           raw |-> Failure(extractor.error), settled |-> TRUE,
                           result |-> Failure(extractor.error)])
              /\ uuidCount' = uuidCount
         ELSE IF extractor.name \notin ExtractorsWithoutAwait
         THEN /\ processed' =
                   Append(processed,
                          [input |-> input, extractor |-> extractor, extracted |-> FALSE,
                           raw |-> NoCall, settled |-> FALSE, result |-> NoCall])
              /\ uuidCount' = uuidCount
         ELSE Let(extract(extractor.name, input.buffer, input.fileName, uuidCount),
                  LAMBDA raw :
                  /\ processed' =
                       Append(processed,
                              [input |-> input, extractor |-> extractor,
                               extracted |-> TRUE, raw |-> raw, settled |-> ~raw.ok,
                               result |-> IF raw.ok THEN NoCall ELSE raw])
                  /\ uuidCount' = IF raw.ok THEN uuidCount + 1 ELSE uuidCount))
    /\ UNCHANGED <<extractors, routed, textVars, normVars, extractVars, postVars, lexVars, clientVars>>

\* extractor.extract, pending since the call of process, has settled, other calls
\* having run in between: it returns the raw document, its documentId drawn at the
\* end, or it rejects, which rejects process.
ProcessExtracted(i) ==
    /\ i <= Len(processed)
    /\ ~processed[i].extracted
    /\ Let(extract(processed[i].extractor.name, processed[i].input.buffer,
                   processed[i].input.fileName, uuidCount), LAMBDA raw :
           /\ processed' =
                [processed EXCEPT ![i].extracted = TRUE,
                                  ![i].raw = raw,
                                  ![i].settled = ~raw.ok,
                                  ![i].result = IF raw.ok THEN NoCall ELSE raw]
           /\ uuidCount' = IF raw.ok THEN uuidCount + 1 ELSE uuidCount)
    /\ UNCHANGED <<extractors, routed, textVars, normVars, extractVars, postVars, lexVars, clientVars>>

\* process goes on after its await, other calls having run in between:
\* normalizeDocument({ ...raw, mimeType }) draws the ids of the chunks, and
\* process returns the document.
ProcessNormalize(i) ==
    /\ i <= Len(processed)
    /\ processed[i].extracted
    /\ ~processed[i].settled
    /\ processed' =
         [processed EXCEPT ![i].settled = TRUE,
                           ![i].result = finishProcess(processed[i].raw.doc,
                                                       processed[i].input.mimeType,
                                                       uuidCount)]
    /\ uuidCount' = uuidCount + UuidsOfNormalize(processed[i].raw.doc)
    /\ UNCHANGED <<extractors, routed, textVars, normVars, extractVars, postVars, lexVars, clientVars>>

NextRouter ==
    \/ \E extractor \in CustomExtractors : Register(extractor)
    \/ \E mimeType \in MediaTypes : Route(mimeType)
    \/ \E input \in ProcessInputs : ProcessCall(input)
    \/ \E i \in 1..Cardinality(Callers) : ProcessExtracted(i)
    \/ \E i \in 1..Cardinality(Callers) : ProcessNormalize(i)

SpecRouter == InitRouter /\ [][NextRouter]_vars

\* C1: route returns the earliest-registered extractor that supports the media type,
\* fails with the unsupported-media-type error exactly when no registered extractor
\* supports it, and leaves the registry as it was.
C1_RouteFirstSupporting ==
    [][(routed' # routed) =>
         LET mimeType == routed'.mimeType
             result == routed'.result
             supporting == {i \in 1..Len(extractors) : supports(extractors[i], mimeType)}
         IN  /\ extractors' = extractors
             /\ result.ok <=> supporting # {}
             /\ result.ok =>
                  /\ result.index \in supporting
                  /\ \A j \in supporting : result.index <= j
                  /\ result.name = extractors[result.index].name
             /\ ~result.ok =>
                  result.error = <<"No extractor registered for MIME type: ", mimeType>>
      ]_vars

\* C1 witness: with two custom extractors registered, one of them supporting
\* application/pdf too, route("application/pdf") gave the built-in PdfExtractor.
C1_Witness ==
    /\ routed.called
    /\ Len(extractors) = Len(BuiltInExtractors) + 2
    /\ \E i \in 1..Len(extractors) :
         extractors[i].name = "PlainPdfExtractor"
    /\ routed.mimeType = "application/pdf"
    /\ routed.result.ok
    /\ routed.result.name = "PdfExtractor"

\* A text as normalizeText leaves it: not empty, no null byte, form feed, tab,
\* non-breaking or zero-width character, no white space at either end of the text
\* or of a line, no two spaces in a row, no three line feeds in a row.
IsCleanText(text) ==
    /\ text # << >>
    /\ \A i \in 1..Len(text) : text[i] \notin {NUL, FF, TAB, NBSP, ZWSP, ZWNJ, ZWJ, BOM}
    /\ text[1] \notin JsWhiteSpace
    /\ text[Len(text)] \notin JsWhiteSpace
    /\ \A i \in 1..(Len(text) - 1) :
         /\ ~(text[i] = SP /\ text[i + 1] = SP)
         /\ ~(text[i] = SP /\ text[i + 1] = LF)
         /\ ~(text[i] = LF /\ text[i + 1] = SP)
    /\ \A i \in 1..(Len(text) - 2) :
         ~(text[i] = LF /\ text[i + 1] = LF /\ text[i + 2] = LF)

\* C2: a document that process returns has the input media type as mimeType, whatever
\* the extractor set, and all its chunks are normalized (clean text, an id), none of
\* the extractor's non-blank chunks missing; process returns a document exactly when
\* route and extract both succeeded, and otherwise only the error.  This holds of
\* every call, whatever other calls ran while it waited for its extractor.
C2_ProcessOverridesAndNormalizes ==
    \A n \in 1..Len(processed) :
        processed[n].settled =>
            LET result == processed[n].result
            IN  /\ result.ok <=> (processed[n].extractor.ok /\ processed[n].raw.ok)
                /\ ~result.ok => DOMAIN result = {"ok", "error"}
                /\ result.ok =>
                     /\ result.doc.mimeType = processed[n].input.mimeType
                     /\ \A i \in 1..Len(result.doc.chunks) :
                          /\ result.doc.chunks[i].id # << >>
                          /\ IsCleanText(result.doc.chunks[i].text)
                     /\ Len(result.doc.chunks) =
                          Len(SelectSeq(processed[n].raw.doc.chunks,
                                        LAMBDA c : ~IsBlankText(c.text)))

\* C2 witness: process was called for a PDF and, while its extractor was pending,
\* for a tab-separated file.  The CSV extractor, which has no await, set text/csv
\* and drew its documentId at the call; that call returned its document, the media
\* type of the input and one normalized chunk, before the PDF's extractor drew the
\* id of its document.
C2_Witness ==
    /\ Len(processed) = 2
    /\ processed[1].input.mimeType = "application/pdf"
    /\ processed[1].extracted /\ processed[1].raw.ok
    /\ processed[2].settled /\ processed[2].result.ok
    /\ processed[2].input.mimeType = "text/tab-separated-values"
    /\ processed[2].raw.doc.mimeType = "text/csv"
    /\ Len(processed[2].result.doc.chunks) = 1
    /\ processed[2].result.doc.documentId[1] < processed[2].result.doc.chunks[1].id[1]
    /\ processed[2].result.doc.chunks[1].id[1] < processed[1].raw.doc.documentId[1]

(***************************************************************************)
(* SpecText: normalizeText applied to every string over Alphabet of at     *)
(* most MaxLen code units, then applied to its own result.                 *)
(***************************************************************************)
Alphabet == {NUL, LF, SP, ZWSP, LetterA}
MaxLen == 5
Strings == UNION {[1..n -> Alphabet] : n \in 0..MaxLen}

InitText ==
    /\ rawText \in Strings
    /\ normalized = NoText
    /\ renormalized = NoText
    /\ uuidCount = 0
    /\ IdleNorm
    /\ IdleRouter
    /\ IdleExtract
    /\ IdlePost
    /\ IdleLexer
    /\ IdleOcrClient

NormalizeOnce ==
    /\ ~normalized.done
    /\ normalized' = [done |-> TRUE, text |-> normalizeText(rawText)]
    /\ UNCHANGED <<rawText, renormalized, uuidCount, normVars, routerVars, extractVars, postVars, lexVars, clientVars>>

NormalizeAgain ==
    /\ normalized.done
    /\ ~renormalized.done
    /\ renormalized' = [done |-> TRUE, text |-> normalizeText(normalized.text)]
    /\ UNCHANGED <<rawText, normalized, uuidCount, normVars, routerVars, extractVars, postVars, lexVars, clientVars>>

NextText == NormalizeOnce \/ NormalizeAgain

SpecText == InitText /\ [][NextText]_vars

\* C7: normalizeText is idempotent: normalizing a normalized string changes nothing.
C7_NormalizeTextIdempotent ==
    renormalized.done => renormalized.text = normalized.text

(***************************************************************************)
(* SpecNormalize: normalizeDocument applied to a document as an extractor  *)
(* returns it (chunk ids empty), then applied again to its own result.     *)
(* The document has at most MaxChunks chunks with texts of SampleTexts, or *)
(* one chunk with any text of Strings.                                     *)
(***************************************************************************)
MaxChunks == 2

SampleTexts ==
    { << >>,                                        \* empty
      <<SP, LF, TAB>>,                              \* whitespace only
      <<NUL, ZWSP, FF>>,                            \* removed artifacts only
      <<LetterA>>,
      <<SP, LetterA, SP, SP, LetterB, LF>>,
      <<LetterA, LF, LetterB, LF, LetterA>> }

\* The shapes an extractor gives a chunk: a page paragraph, a heading without a
\* page, an image chunk with its section label.
SampleShapes ==
    { [type |-> "paragraph", page |-> 1, section |-> NoSection],
      [type |-> "heading", page |-> NoPage, section |-> NoSection],
      [type |-> "image", page |-> 2, section |-> <<"image", 1>>] }

Chunk(shape, text) ==
    [id |-> << >>, type |-> shape.type, text |-> text,
     page |-> shape.page, section |-> shape.section]

SampleChunks == {Chunk(shape, text) : shape \in SampleShapes, text \in SampleTexts}

SampleChunkLists ==
    UNION {[1..n -> SampleChunks] : n \in 0..MaxChunks}
        \cup {<<Chunk(shape, text)>> :
                shape \in {sh \in SampleShapes : sh.type = "paragraph"}, text \in Strings}

\* documentId: assigned by the extractor (the first uuid), or left empty.
InitNormalize ==
    /\ IdleText
    /\ IdleRouter
    /\ IdleExtract
    /\ IdlePost
    /\ IdleLexer
    /\ IdleOcrClient
    /\ uuidCount \in {0, 1}
    /\ \E chunks \in SampleChunkLists :
         rawDoc = [done |-> TRUE,
                   doc |-> [documentId |-> IF uuidCount = 0 THEN << >> ELSE <<1>>,
                            fileName |-> "report.pdf",
                            mimeType |-> "application/pdf",
                            metadata |-> [pageCount |-> 2],
                            chunks |-> chunks]]
    /\ normDoc = NoDoc
    /\ renormDoc = NoDoc

NormalizeDocumentOnce ==
    /\ ~normDoc.done
    /\ normDoc' = [done |-> TRUE, doc |-> normalizeDocument(rawDoc.doc, uuidCount)]
    /\ uuidCount' = uuidCount + UuidsOfNormalize(rawDoc.doc)
    /\ UNCHANGED <<rawDoc, renormDoc, textVars, routerVars, extractVars, postVars, lexVars, clientVars>>

NormalizeDocumentAgain ==
    /\ normDoc.done
    /\ ~renormDoc.done
    /\ renormDoc' = [done |-> TRUE, doc |-> normalizeDocument(normDoc.doc, uuidCount)]
    /\ uuidCount' = uuidCount + UuidsOfNormalize(normDoc.doc)
    /\ UNCHANGED <<rawDoc, normDoc, textVars, routerVars, extractVars, postVars, lexVars, clientVars>>

NextNormalize == NormalizeDocumentOnce \/ NormalizeDocumentAgain

SpecNormalize == InitNormalize /\ [][NextNormalize]_vars

\* C6: every chunk that normalizeDocument returns has non-empty text, and the chunks
\* it drops are exactly those whose text is empty, white space or removed artifacts.
C6_SurvivorsHaveText ==
    /\ normDoc.done =>
          /\ \A i \in 1..Len(normDoc.doc.chunks) : normDoc.doc.chunks[i].text # << >>
          /\ Len(normDoc.doc.chunks) =
                Len(SelectSeq(rawDoc.doc.chunks, LAMBDA c : ~IsBlankText(c.text)))
    /\ renormDoc.done =>
          /\ \A i \in 1..Len(renormDoc.doc.chunks) : renormDoc.doc.chunks[i].text # << >>
          /\ Len(renormDoc.doc.chunks) = Len(normDoc.doc.chunks)

\* C6 witness: a document with an artifacts-only chunk and a chunk with text was
\* normalized: the first is gone, the second is there.
C6_Witness ==
    /\ normDoc.done
    /\ \E i \in 1..Len(rawDoc.doc.chunks) : rawDoc.doc.chunks[i].text = <<NUL, ZWSP, FF>>
    /\ Len(normDoc.doc.chunks) = 1
    /\ Len(rawDoc.doc.chunks) = 2

\* What normalization must leave alone in a chunk.
ChunkFrame(chunk) == [type |-> chunk.type, page |-> chunk.page, section |-> chunk.section]

DocumentFrame(in, out) ==
    /\ in.documentId # << >> => out.documentId = in.documentId
    /\ out.documentId # << >>
    /\ out.fileName = in.fileName
    /\ out.mimeType = in.mimeType
    /\ out.metadata = in.metadata
    /\ Map(out.chunks, ChunkFrame)
         = Map(SelectSeq(in.chunks, LAMBDA c : ~IsBlankText(c.text)), ChunkFrame)

\* C9: normalizeDocument changes only chunk text and chunk id: a non-empty documentId
\* is kept (also by a second normalization), fileName and metadata are kept, each
\* surviving chunk keeps its type, page and section in the same order, and the input
\* document is not modified.
C9_NormalizeFrame ==
    /\ [](/\ normDoc.done => DocumentFrame(rawDoc.doc, normDoc.doc)
          /\ renormDoc.done => /\ DocumentFrame(normDoc.doc, renormDoc.doc)
                                /\ renormDoc.doc.documentId = normDoc.doc.documentId)
    /\ [][/\ rawDoc' = rawDoc
          /\ normDoc.done => normDoc' = normDoc]_vars

\* C9 witness: a document whose extractor assigned documentId, with a dropped chunk
\* and two kept ones, was normalized twice.
C9_Witness ==
    /\ renormDoc.done
    /\ rawDoc.doc.documentId = <<1>>
    /\ Len(rawDoc.doc.chunks) = 2
    /\ Len(renormDoc.doc.chunks) = 1
    /\ renormDoc.doc.chunks[1].type = "image"

(***************************************************************************)
(* SpecExtract: one buffer is given to one extractor class of the sources  *)
(* (the three PdfExtractor classes included), and the document it returns  *)
(* is normalized as process does; or one image of the buffer is given to   *)
(* the recognize of one OcrProvider class.                                 *)
(***************************************************************************)
MaxPages == 2

NoContents == [kind |-> "none", entries |-> << >>]
NoDict == [kind |-> "none", entries |-> << >>]
NoResources == [present |-> FALSE, xObjects |-> NoDict, colorSpaces |-> NoDict]

\* A content stream that decodes to `bytes`.
ContentStream(bytes) ==
    [kind |-> "stream", class |-> "PDFRawStream", decodes |-> TRUE,
     decoded |-> bytes, contents |-> bytes]

\* An image XObject with a Width and a Height that decodes and converts, and what
\* the OCR engine reads in it.
ImageStream(filterName, colorSpaceName, ocr) ==
    [kind |-> "stream", subtype |-> "Image",
     filter |-> IF filterName = "" THEN [kind |-> "none", names |-> << >>]
                ELSE [kind |-> "name", names |-> <<filterName>>],
     colorSpace |-> IF colorSpaceName = "" THEN [kind |-> "none", name |-> ""]
                    ELSE [kind |-> "name", name |-> colorSpaceName],
     hasSize |-> TRUE, bits |-> 8, class |-> "PDFRawStream",
     decodes |-> TRUE, sharp |-> "resolves", ocr |-> ocr]

\* The OCR engine fails on the image with this message.
EngineFails(message) == [ok |-> FALSE, text |-> message]

Images(entries) ==
    [present |-> TRUE, xObjects |-> [kind |-> "dict", entries |-> entries],
     colorSpaces |-> NoDict]

PdfPage(items, contents, resources) ==
    [items |-> items, textFails |-> FALSE, contents |-> contents, resources |-> resources]

EolItem(str) == [hasStr |-> TRUE, str |-> str, hasEOL |-> TRUE]

\* A heading, a blank line and a paragraph, then an item of a null byte and a
\* letter: well above the sparse threshold.
RichPage ==
    PdfPage(<<TextItem(Rep(65, 30) \o <<LF, LF>> \o Rep(LetterA, 30)),
              MarkedContent, TextItem(<<NUL, LetterB>>)>>, NoContents, NoResources)
\* 49 characters between white space, and one JPEG image.
Page49 ==
    PdfPage(<<TextItem(<<SP>> \o Rep(LetterA, 49) \o <<SP, SP>>)>>, NoContents,
            Images(<<ImageStream("DCTDecode", "DeviceRGB", Text(<<SP, LetterB, SP>>))>>))
\* Two items that join to exactly 50 characters; the first ends a line.
Page50 ==
    PdfPage(<<EolItem(Rep(LetterA, 24)), TextItem(Rep(LetterA, 25))>>,
            NoContents, NoResources)
Page51 == PdfPage(<<TextItem(Rep(LetterA, 51))>>, NoContents, NoResources)
\* No structured text; a content stream "(Hi) Tj [(a) -20 <62>] TJ"; three images:
\* one read as blank, one read as a letter, one read as a zero-width space.
FallbackPage ==
    PdfPage(<< >>,
            [kind |-> "stream",
             entries |-> <<ContentStream(<<40, 72, 105, 41, 32, 84, 106, 32, 91, 40, 97, 41,
                                           32, 45, 50, 48, 32, 60, 54, 50, 62, 93, 32, 84,
                                           74>>)>>],
            Images(<<ImageStream("", "", Text(<<SP, SP>>)),
                     ImageStream("FlateDecode", "DeviceGray", Text(<<LetterA>>)),
                     ImageStream("JPXDecode", "", Text(<<ZWSP>>))>>))
\* Only white space as structured text, and an image the OCR engine fails on.
BlankPage ==
    PdfPage(<<TextItem(<<SP, LF>>)>>, NoContents,
            Images(<<ImageStream("DCTDecode", "", EngineFails(<<LetterB>>))>>))
\* A paragraph and two images: the OCR engine fails on the first and reads a
\* letter in the second.
MixedPage ==
    PdfPage(<<TextItem(Rep(LetterA, 51))>>, NoContents,
            Images(<<ImageStream("DCTDecode", "", EngineFails(<<LetterB>>)),
                     ImageStream("DCTDecode", "DeviceRGB", Text(<<LetterB>>))>>))
\* A page whose getTextContent rejects.
UnreadablePage ==
    [items |-> << >>, textFails |-> TRUE, contents |-> NoContents, resources |-> NoResources]
\* Structured text "Hello", a content stream "(Hi) Tj", and an image read as a letter.
BothPage ==
    PdfPage(<<TextItem(<<72, 101, 108, 108, 111>>)>>,
            [kind |-> "stream", entries |-> <<ContentStream(<<40, 72, 105, 41, 32, 84, 106>>)>>],
            Images(<<ImageStream("DCTDecode", "DeviceRGB", Text(<<LetterB>>))>>))
\* No structured text, and a content stream whose string opens with the UTF-16BE
\* byte order mark and goes on with one byte: "(\376\377A) Tj" with the bytes written raw.
BrokenStreamPage ==
    PdfPage(<< >>,
            [kind |-> "stream",
             entries |-> <<ContentStream(<<40, 254, 255, 65, 41, 32, 84, 106>>)>>],
            NoResources)
EmptyPage == PdfPage(<< >>, NoContents, NoResources)

SamplePages ==
    {RichPage, Page49, Page50, Page51, FallbackPage, BlankPage, MixedPage, UnreadablePage,
     BothPage, BrokenStreamPage, EmptyPage}

\* A PDF of these pages; pdf-parse renders the same text items pdfjs reads.
Pdf(pages) ==
    [kind |-> "pdf", pages |-> pages,
     parsed |-> [ok |-> TRUE, pages |-> [k \in 1..Len(pages) |-> pages[k].items]]]

\* One buffer per other extractor.
SampleBuffers ==
    {BufCsv, BufCsvEmpty, BufXlsx, BufPptx, BufImage, BufImageBlank, BufImageOcrFails,
     BufDocx, BufDocxRaw, BufHtml, BufText}

\* The extractor classes besides PdfExtractor: the built-in ones and a custom one.
OtherExtractors ==
    {"DocxExtractor", "ExcelExtractor", "CsvExtractor", "PptxExtractor", "HtmlExtractor",
     "ImageExtractor", "MarkdownExtractor"}

\* What pdf-parse does with these pages.  The pagerender callback of
\* extractTextPages rejects on a page whose getTextContent rejects, before it
\* pushes a text; pdf-parse then either rejects or goes on without that page.
PdfParseOutcomes(pages) ==
    IF \A n \in 1..Len(pages) : ~pages[n].textFails
    THEN {[ok |-> TRUE, pages |-> [k \in 1..Len(pages) |-> pages[k].items]]}
    ELSE {[ok |-> FALSE, pages |-> << >>],
          Let(SelectSeq(pages, LAMBDA page : ~page.textFails), LAMBDA read :
              [ok |-> TRUE, pages |-> [k \in 1..Len(read) |-> read[k].items]])}

SamplePdfs ==
    {BufCorrupt} \cup
    UNION { {[kind |-> "pdf", pages |-> pages, parsed |-> parsed] :
                parsed \in PdfParseOutcomes(pages)} :
            pages \in UNION { [1..n -> SamplePages] : n \in 0..MaxPages } }

InitExtract ==
    /\ IdleText
    /\ IdleNorm
    /\ IdleRouter
    /\ IdlePost
    /\ IdleLexer
    /\ IdleOcrClient
    /\ uuidCount = 0
    /\ \E buffer \in SamplePdfs \cup SampleBuffers, ocrProvider \in {NoProvider, "TesseractOcrProvider"},
          openaiKey \in OpenAiKeys :
         given = [called |-> TRUE, buffer |-> buffer, fileName |-> "report.pdf",
                     ocrProvider |-> ocrProvider, openaiKey |-> openaiKey]
    /\ extracted = NoCall
    /\ finished = NoDoc
    /\ recognition = NoCall
    /\ conversion = NoCall
    /\ instance = NoCall

\* What SpecExtract records of an extract call that has returned or rejected.
Extraction(extractor, result) == [called |-> TRUE, extractor |-> extractor, result |-> result]

\* One uuidv4() is drawn by an extract that returns.
UuidsAfter(result) == IF result.ok THEN uuidCount + 1 ELSE uuidCount

\* extract of extractors/pdf.ts
ExtractPdfjs ==
    /\ extracted = NoCall /\ recognition = NoCall
    /\ extracted' =
         Extraction("pdf.ts",
                    PdfExtractor_extract(given.buffer, given.fileName, uuidCount))
    /\ uuidCount' = UuidsAfter(extracted'.result)
    /\ UNCHANGED <<given, finished, recognition, conversion, instance, textVars, normVars, routerVars, postVars, lexVars, clientVars>>

\* extract of the pdf-lib extractor
ExtractPdfLib ==
    /\ extracted = NoCall /\ recognition = NoCall /\ conversion = NoCall
    /\ extracted' =
         Extraction("pdf-lib",
                    PdfExtractor_extract_pdflib(given.buffer, given.fileName, uuidCount,
                                                given.ocrProvider, given.openaiKey))
    /\ uuidCount' = UuidsAfter(extracted'.result)
    /\ UNCHANGED <<given, finished, recognition, conversion, instance, textVars, normVars, routerVars, postVars, lexVars, clientVars>>

\* extract of the plain pdfjs extractor
ExtractPlain ==
    /\ extracted = NoCall /\ recognition = NoCall
    /\ extracted' =
         Extraction("plain",
                    PdfExtractor_extract_plain(given.buffer, given.fileName, uuidCount))
    /\ uuidCount' = UuidsAfter(extracted'.result)
    /\ UNCHANGED <<given, finished, recognition, conversion, instance, textVars, normVars, routerVars, postVars, lexVars, clientVars>>

\* extract of another extractor class; the ImageExtractor has the provider given
\* to it, or none.
ExtractOther(name) ==
    /\ extracted = NoCall /\ recognition = NoCall
    /\ extracted' =
         Extraction(name,
                    IF name = "ImageExtractor"
                    THEN ImageExtractor_extract(given.buffer, given.fileName, uuidCount,
                                                given.ocrProvider)
                    ELSE extract(name, given.buffer, given.fileName, uuidCount))
    /\ uuidCount' = UuidsAfter(extracted'.result)
    /\ UNCHANGED <<given, finished, recognition, conversion, instance, textVars, normVars, routerVars, postVars, lexVars, clientVars>>

\* The image XObjects of the pages of a PDF.
ImagesOf(buffer) ==
    IF buffer.kind # "pdf" THEN {}
    ELSE UNION {{buffer.pages[n].resources.xObjects.entries[k] :
                    k \in 1..Len(buffer.pages[n].resources.xObjects.entries)} :
                n \in 1..Len(buffer.pages)}

\* provider.recognize(image) on an image of the given PDF
Recognize(provider) ==
    /\ recognition = NoCall
    /\ extracted = NoCall
    /\ \E image \in ImagesOf(given.buffer) :
         recognition' = [called |-> TRUE, provider |-> provider, image |-> image,
                        result |-> recognize(provider, image)]
    /\ UNCHANGED <<given, extracted, finished, conversion, instance, uuidCount, textVars,
                   normVars, routerVars, postVars, lexVars, clientVars>>

PdfExtractorClasses == {"pdf.ts", "pdf-lib", "plain"}

\* The media types that make process call this extractor: those it supports.
RoutedTypes(extractor) ==
    IF extractor \in PdfExtractorClasses THEN PDF_SUPPORTED_TYPES
    ELSE IF extractor = "MarkdownExtractor" THEN {"text/markdown"}
    ELSE UNION {BuiltInExtractors[k].types :
                   k \in {j \in DOMAIN BuiltInExtractors :
                              BuiltInExtractors[j].name = extractor}}

\* The tail of process, called with this media type, on the extracted document:
\* normalizeDocument({ ...raw, mimeType }).
NormalizeExtracted(mimeType) ==
    /\ extracted.called
    /\ extracted.result.ok
    /\ ~finished.done
    /\ mimeType \in RoutedTypes(extracted.extractor)
    /\ finished' =
         [done |-> TRUE, mimeType |-> mimeType,
          doc |-> finishProcess(extracted.result.doc, mimeType, uuidCount).doc]
    /\ uuidCount' = uuidCount + UuidsOfNormalize(extracted.result.doc)
    /\ UNCHANGED <<given, extracted, recognition, conversion, instance, textVars, normVars, routerVars, postVars, lexVars, clientVars>>

NextExtract ==
    \/ ExtractPdfjs
    \/ ExtractPdfLib
    \/ ExtractPlain
    \/ \E name \in OtherExtractors : ExtractOther(name)
    \/ \E provider \in OcrProviders : Recognize(provider)
    \/ \E mimeType \in UNION {RoutedTypes(name) : name \in OtherExtractors \cup {"pdf.ts"}} :
          NormalizeExtracted(mimeType)

SpecExtract == InitExtract /\ [][NextExtract]_vars

\* Pages never decrease along the list; on one page no text chunk follows an image
\* chunk, and the image labels image-1, image-2, ... ascend.
InPageOrder(chunks) ==
    \A i, j \in 1..Len(chunks) :
        i < j =>
            /\ chunks[i].page <= chunks[j].page
            /\ (chunks[i].page = chunks[j].page /\ chunks[i].type = "image")
                 => /\ chunks[j].type = "image"
                    /\ chunks[i].section[2] < chunks[j].section[2]

\* The chunks that normalization keeps, in the order extract returned them.
Survivors(chunks) == SelectSeq(chunks, LAMBDA chunk : ~IsBlankText(chunk.text))

\* C5: the chunk list a PDF extractor returns is in page order with the text chunks
\* of a page before its image chunks, and the normalized list is the list of the
\* surviving chunks in that same order (each with its type, page and section).
C5_PdfChunkOrder ==
    (extracted.called /\ extracted.extractor \in PdfExtractorClasses /\ extracted.result.ok)
        => /\ InPageOrder(extracted.result.doc.chunks)
           /\ finished.done =>
                LET before == Survivors(extracted.result.doc.chunks)
                    after == finished.doc.chunks
                IN  /\ InPageOrder(after)
                    /\ Len(after) = Len(before)
                    /\ \A i \in 1..Len(after) :
                         /\ ChunkFrame(after[i]) = ChunkFrame(before[i])
                         /\ after[i].text = normalizeText(before[i].text)

\* C5 witness: the pdf-lib extractor returned text and image chunks for two pages,
\* one page with a text chunk and two image chunks, and normalization dropped a chunk.
C5_Witness ==
    /\ finished.done
    /\ extracted.extractor = "pdf-lib"
    /\ Len(finished.doc.chunks) < Len(extracted.result.doc.chunks)
    /\ \E i, j, k \in 1..Len(extracted.result.doc.chunks) :
         LET chunks == extracted.result.doc.chunks
         IN  /\ i < j /\ j < k
             /\ chunks[i].page = 1 /\ chunks[i].type = "paragraph"
             /\ chunks[j].page = 1 /\ chunks[j].type = "image"
             /\ chunks[k].page = 2

\* C8: every chunk returned by an extractor's extract has the empty id; after one
\* normalizeDocument every chunk has a non-empty id and no two chunks share one.
C8_IdsAssignedByNormalization ==
    (extracted.called /\ extracted.result.ok)
        => /\ \A i \in 1..Len(extracted.result.doc.chunks) :
                extracted.result.doc.chunks[i].id = << >>
           /\ finished.done =>
                \A i, j \in 1..Len(finished.doc.chunks) :
                    /\ finished.doc.chunks[i].id # << >>
                    /\ Len(finished.doc.chunks[i].id) = 1
                    /\ i # j => finished.doc.chunks[i].id # finished.doc.chunks[j].id

\* C8 witness: the pdf-lib extractor's document, normalized, holds text chunks of
\* chunkPageText and an image chunk, three chunks or more.
C8_Witness ==
    /\ finished.done
    /\ extracted.extractor = "pdf-lib"
    /\ Len(finished.doc.chunks) >= 3
    /\ \E i, j \in 1..Len(finished.doc.chunks) :
         /\ finished.doc.chunks[i].type = "image"
         /\ finished.doc.chunks[j].type # "image"

\* The ascending list of the pages whose trimmed structured text is shorter than 50.
PagesBelow50(pages) ==
    SelectSeq([n \in 1..Len(pages) |-> n],
              LAMBDA n : Len(trim(PageText(pages[n].items))) < 50)

\* C10 as stated: whichever PdfExtractor class extracts the PDF, metadata.ocrPages
\* is the ascending list of the pages whose trimmed structured text is below 50.
C10_OcrPagesOfEveryPdfExtractor ==
    (extracted.called /\ extracted.extractor \in PdfExtractorClasses /\ extracted.result.ok)
        => /\ "ocrPages" \in DOMAIN extracted.result.doc.metadata
           /\ extracted.result.doc.metadata.ocrPages = PagesBelow50(given.buffer.pages)

\* C10 amended: the PdfExtractor of extractors/pdf.ts, the one the router registers,
\* sets metadata.ocrPages to the ascending list of the pages whose trimmed structured
\* text is below 50; the pdf-lib extractor and the plain pdfjs extractor set no
\* ocrPages at all.
C10_OcrPagesOfPdfjsExtractor ==
    (extracted.called /\ extracted.extractor \in PdfExtractorClasses /\ extracted.result.ok)
        => LET metadata == extracted.result.doc.metadata
           IN  /\ extracted.extractor = "pdf.ts"
                    => /\ DOMAIN metadata = {"pageCount", "ocrPages", "isScannedPdf"}
                       /\ metadata.ocrPages = PagesBelow50(given.buffer.pages)
               /\ extracted.extractor = "pdf-lib"
                    => DOMAIN metadata = {"pageCount", "imageOcrPages"}
               /\ extracted.extractor = "plain" => DOMAIN metadata = {"pageCount"}

\* C10 witness: pdf.ts extracted a page of 49 characters and a page of exactly 50,
\* and lists the first only.
C10_Witness ==
    /\ extracted.called
    /\ extracted.extractor = "pdf.ts"
    /\ extracted.result.ok
    /\ given.buffer.pages = <<Page49, Page50>>
    /\ extracted.result.doc.metadata.ocrPages = <<1>>

\* C11: in a document of the PdfExtractor that the router registers, pageCount is the
\* number of pages and isScannedPdf is true exactly when ocrPages lists as many
\* pages as pageCount and pageCount > 0: it is false for a document of no page and
\* false when some page has 50 or more characters of trimmed text.
C11_IsScannedPdf ==
    (extracted.called /\ extracted.extractor = "pdf.ts" /\ extracted.result.ok)
        => LET metadata == extracted.result.doc.metadata
               pages == given.buffer.pages
           IN  /\ metadata.pageCount = Len(pages)
               /\ metadata.isScannedPdf \in BOOLEAN
               /\ metadata.isScannedPdf
                    <=> (Len(metadata.ocrPages) = metadata.pageCount
                           /\ metadata.pageCount > 0)
               /\ Len(pages) = 0 => ~metadata.isScannedPdf
               /\ (\E n \in 1..Len(pages) : Len(trim(PageText(pages[n].items))) >= 50)
                    => ~metadata.isScannedPdf

\* C11 witness: two pages, both below 50 characters, and isScannedPdf is true.
C11_Witness ==
    /\ extracted.called
    /\ extracted.extractor = "pdf.ts"
    /\ extracted.result.ok
    /\ given.buffer.pages = <<Page49, BlankPage>>
    /\ extracted.result.doc.metadata.isScannedPdf

\* The chunks of page n, and among them those of images and those of text.
ChunksOfPage(chunks, n) == SelectSeq(chunks, LAMBDA chunk : chunk.page = n)
ImageChunksOfPage(chunks, n) ==
    SelectSeq(chunks, LAMBDA chunk : chunk.page = n /\ chunk.type = "image")
TextChunksOfPage(chunks, n) ==
    SelectSeq(chunks, LAMBDA chunk : chunk.page = n /\ chunk.type # "image")

\* The pages of the given PDF whose trimmed structured text is below 50 characters.
SparsePages == {n \in 1..Len(given.buffer.pages) :
                  Len(trim(PageText(given.buffer.pages[n].items))) < 50}

\* The partial text of a sparse page as a single paragraph chunk, if there is any.
PartialTextChunk(n) ==
    LET trimmed == trim(PageText(given.buffer.pages[n].items))
    IN  IF Len(trimmed) > 0 THEN <<TextChunk("paragraph", trimmed, n)>> ELSE << >>

\* The texts that recognition of the images of page n gives, those left out that
\* are blank.
RecognizedImageTexts(n) ==
    extractImageTexts(given.buffer.pages[n],
                      getOrCreateOcrProvider(given.ocrProvider, given.openaiKey),
                      given.openaiKey).results

\* C12 as stated: a PDF extractor with a page loop marks a sparse page in ocrPages,
\* keeps its partial text as a single paragraph chunk, and goes on to recognize the
\* page's images, whose texts become the page's image chunks.
C12_SparsePageContinuesToImages ==
    (extracted.called /\ extracted.extractor \in {"pdf.ts", "pdf-lib"}
       /\ extracted.result.ok)
        => LET doc == extracted.result.doc
           IN  \A n \in SparsePages :
                   /\ "ocrPages" \in DOMAIN doc.metadata
                   /\ \E k \in 1..Len(doc.metadata.ocrPages) : doc.metadata.ocrPages[k] = n
                   /\ TextChunksOfPage(doc.chunks, n) = PartialTextChunk(n)
                   /\ Map(ImageChunksOfPage(doc.chunks, n), LAMBDA chunk : chunk.text)
                        = RecognizedImageTexts(n)

\* C12 amended: the PdfExtractor of extractors/pdf.ts marks a sparse page in
\* ocrPages, keeps its partial text (if any) as the page's only chunk, a paragraph,
\* and ends the page there: its documents hold no image chunk.  The pdf-lib
\* extractor recognizes the images of every page, sparse or not, and marks no
\* ocrPages.
C12_SparsePageEndsInPdfjsExtractor ==
    (extracted.called /\ extracted.extractor \in {"pdf.ts", "pdf-lib"}
       /\ extracted.result.ok)
        => LET doc == extracted.result.doc
           IN  /\ extracted.extractor = "pdf.ts" =>
                    /\ \A n \in SparsePages :
                          /\ \E k \in 1..Len(doc.metadata.ocrPages) :
                                doc.metadata.ocrPages[k] = n
                          /\ ChunksOfPage(doc.chunks, n) = PartialTextChunk(n)
                    /\ \A i \in 1..Len(doc.chunks) : doc.chunks[i].type # "image"
               /\ extracted.extractor = "pdf-lib" =>
                    /\ "ocrPages" \notin DOMAIN doc.metadata
                    /\ \A n \in 1..Len(given.buffer.pages) :
                          Map(ImageChunksOfPage(doc.chunks, n), LAMBDA chunk : chunk.text)
                            = RecognizedImageTexts(n)

\* C12 witness: pdf.ts extracted a page of 49 characters that holds an image with
\* text in it; the page is in ocrPages and its one chunk is the paragraph.
C12_Witness ==
    /\ extracted.called
    /\ extracted.extractor = "pdf.ts"
    /\ extracted.result.ok
    /\ given.buffer.pages = <<RichPage, Page49>>
    /\ extracted.result.doc.metadata.ocrPages = <<2>>
    /\ ChunksOfPage(extracted.result.doc.chunks, 2)
         = <<TextChunk("paragraph", Rep(LetterA, 49), 2)>>
    /\ RecognizedImageTexts(2) = <<<<LetterB>>>>

\* The provider the pdf-lib extractor recognizes with.
ProviderGiven == getOrCreateOcrProvider(given.ocrProvider, given.openaiKey)

\* An image XObject the OCR engine fails on.
EngineFailsOn(entry) == entry.kind = "stream" /\ entry.subtype = "Image" /\ ~entry.ocr.ok

HasImageEngineFailsOn(page) ==
    /\ page.resources.present /\ page.resources.xObjects.kind = "dict"
    /\ \E k \in 1..Len(page.resources.xObjects.entries) :
          EngineFailsOn(page.resources.xObjects.entries[k])

\* The buffer with every image XObject changed by f.
WithImages(buffer, f(_)) ==
    [buffer EXCEPT !.pages =
        [n \in 1..Len(buffer.pages) |->
            IF ~HasImageEngineFailsOn(buffer.pages[n]) THEN buffer.pages[n]
            ELSE [buffer.pages[n] EXCEPT !.resources.xObjects.entries = f(@)]]]

\* The same PDF without the images the engine fails on.
WithoutFailingImages(buffer) ==
    WithImages(buffer, LAMBDA entries : SelectSeq(entries, LAMBDA entry : ~EngineFailsOn(entry)))

\* The pdf-lib extractor was given a PDF with a page holding such an image, and
\* the provider's recognize rejects on it.
RecognitionRejects ==
    /\ extracted.called /\ extracted.extractor = "pdf-lib"
    /\ given.buffer.kind = "pdf"
    /\ \E n \in 1..Len(given.buffer.pages) :
          /\ HasImageEngineFailsOn(given.buffer.pages[n])
          /\ \E k \in 1..Len(given.buffer.pages[n].resources.xObjects.entries) :
                /\ EngineFailsOn(given.buffer.pages[n].resources.xObjects.entries[k])
                /\ ~recognize(ProviderGiven,
                              given.buffer.pages[n].resources.xObjects.entries[k]).ok

\* C17: when the recognition call for one image of a page fails, extract
\* catches and skips that image only: the other images of the page are recognized
\* and emitted, the page's text chunks are kept, later pages are processed, and
\* extract returns a document (the one the PDF gives without that image).
C17_FailedImageSkipped ==
    RecognitionRejects =>
        Let(PdfExtractor_extract_pdflib(WithoutFailingImages(given.buffer), given.fileName,
                                        0, given.ocrProvider, given.openaiKey),
            LAMBDA without :
            without.ok => /\ extracted.result.ok
                          /\ extracted.result.doc = without.doc)

\* A recognize call was made.
Recognized == recognition.called

StartsWith(text, prefix) ==
    Len(text) >= Len(prefix) /\ SubSeq(text, 1, Len(prefix)) = prefix

\* C19: every OcrProvider's recognize always settles with a string and
\* never raises: on an internal failure of the recognition engine it returns a
\* visibly tagged error string, for the remote vision provider and for the local
\* Tesseract provider alike.
C19_RecognizeAlwaysReturnsString ==
    Recognized =>
        /\ recognition.result.ok
        /\ ~recognition.image.ocr.ok => StartsWith(recognition.result.text, OcrErrorPrefix)

\* A PDF extractor was given a PDF with a page whose text cannot be obtained.
PageTextFails(extractor) ==
    /\ extracted.called /\ extracted.extractor = extractor
    /\ given.buffer.kind = "pdf"
    /\ \E n \in 1..Len(given.buffer.pages) : given.buffer.pages[n].textFails

\* The same PDF with page n read as the text items `items(n)`, every page being
\* readable.
ReadAs(buffer, items(_)) ==
    Pdf([n \in 1..Len(buffer.pages) |->
            [buffer.pages[n] EXCEPT !.items = items(n), !.textFails = FALSE]])

\* The failing pages read as pages of no text, the other pages as they are.
FailingPagesBlank(buffer) ==
    ReadAs(buffer, LAMBDA n : IF buffer.pages[n].textFails THEN << >>
                              ELSE buffer.pages[n].items)

\* C18: a failure to obtain or decode the text of one page yields an
\* empty text contribution for that page only and never aborts the document:
\* extract returns a document with pageCount equal to the number of pages, and the
\* chunks of every other page are the same as if the failing page had no text.
C18_PageTextFailureIsolated ==
    /\ PageTextFails("pdf.ts") =>
          /\ extracted.result.ok
          /\ extracted.result.doc.metadata.pageCount = Len(given.buffer.pages)
          /\ extracted.result.doc.chunks
                = PdfExtractor_extract(FailingPagesBlank(given.buffer), given.fileName, 0)
                      .doc.chunks
    /\ PageTextFails("pdf-lib") =>
          Let(PdfExtractor_extract_pdflib(FailingPagesBlank(given.buffer), given.fileName,
                                          0, given.ocrProvider, given.openaiKey),
              LAMBDA blank :
              blank.ok => /\ extracted.result.ok
                          /\ extracted.result.doc.metadata.pageCount = Len(given.buffer.pages)
                          /\ extracted.result.doc.chunks = blank.doc.chunks)

\* The structured text of page n of the given PDF as extract sees it: the entry of
\* extractTextPages for the page, trimmed.
StructuredText(n) ==
    trim(extractTextPages(given.buffer, Len(given.buffer.pages))[n])

\* The text chunks of page n when its text is this one.
ChunksOfText(text, n) == IF Len(text) > 0 THEN chunkPageText(text, n) ELSE << >>

\* C22: in the pdf-lib extractor the content-stream fallback is entered for a page
\* if and only if the structured-text attempt gave no text for that page (empty
\* after trimming).  The text chunks of a page with structured text are those of
\* the structured text alone, whatever its content streams hold; the text chunks of
\* a page without structured text are those of the lexer's text, and a lexer that
\* throws on such a page makes extract reject.  The images of the page are
\* enumerated and recognized in both cases.
C22_FallbackOnlyWithoutStructuredText ==
    (extracted.called /\ extracted.extractor = "pdf-lib" /\ given.buffer.kind = "pdf") =>
        LET pages == given.buffer.pages
        IN  /\ extracted.result.ok =>
                  \A n \in 1..Len(pages) :
                      /\ TextChunksOfPage(extracted.result.doc.chunks, n)
                            = IF Len(StructuredText(n)) > 0
                              THEN ChunksOfText(StructuredText(n), n)
                              ELSE ChunksOfText(trim(extractPageText(pages[n]).text), n)
                      /\ ImageChunksOfPage(extracted.result.doc.chunks, n)
                            = ImageChunks(extractImageTexts(pages[n], ProviderGiven,
                                                            given.openaiKey).results, n)
            /\ (\E n \in 1..Len(pages) :
                   Len(StructuredText(n)) = 0 /\ ~extractPageText(pages[n]).ok)
                  => ~extracted.result.ok

\* A page with structured text and a content stream of another text, then a page
\* with a content stream only: the first gives the structured text and its image,
\* the second the lexer's texts and its images.
C22_Witness ==
    /\ extracted.called /\ extracted.extractor = "pdf-lib"
    /\ given.buffer.kind = "pdf"
    /\ given.buffer.pages = <<BothPage, FallbackPage>>
    /\ given.buffer.parsed.ok
    /\ extracted.result.ok
    /\ Len(extracted.result.doc.chunks) = 5
    /\ extracted.result.doc.chunks[1].text = <<72, 101, 108, 108, 111>>
    /\ extracted.result.doc.chunks[2].type = "image"
    /\ extracted.result.doc.chunks[3].page = 2
    /\ extracted.result.doc.chunks[3].text = <<72, 105, SP, LetterA, LetterB>>
    /\ extracted.result.doc.metadata.imageOcrPages = <<1, 2>>

\* The non-empty blocks of a text that blank lines separate, each trimmed.
Blocks(text) ==
    SelectSeq(Map(SplitParagraphs(text), trim), LAMBDA block : Len(block) > 0)

\* C23, for the pdf-lib extractor: the text of a page is split into paragraphs on
\* blank-line boundaries, so a page whose text is made of k non-empty blocks
\* separated by blank lines yields k text chunks for that page, one per block and
\* in order.
C23_BlocksBecomeChunks ==
    (/\ extracted.called /\ extracted.extractor = "pdf-lib"
     /\ given.buffer.kind = "pdf"
     /\ \A n \in 1..Len(given.buffer.pages) : ~given.buffer.pages[n].textFails
     /\ extracted.result.ok) =>
        \A n \in 1..Len(given.buffer.pages) :
            Len(StructuredText(n)) > 0 =>
                LET blocks == Blocks(PageText(given.buffer.pages[n].items))
                    chunks == TextChunksOfPage(extracted.result.doc.chunks, n)
                IN  /\ Len(chunks) = Len(blocks)
                    /\ \A k \in 1..Len(chunks) : chunks[k].text = CollapseSpace(blocks[k])

\* The images of a page that convert to a PNG, in the order of the XObject
\* dictionary of the page.
DiscoveredImages(page) ==
    IF ~page.resources.present \/ page.resources.xObjects.kind # "dict" THEN << >>
    ELSE SelectSeq(page.resources.xObjects.entries,
                   LAMBDA image : /\ image.kind = "stream" /\ image.subtype = "Image"
                                  /\ convertImageStreamToPng(image, page.resources).ok
                                  /\ convertImageStreamToPng(image, page.resources).png)

\* The trimmed texts the provider recognizes in those images, the empty ones left out.
NonEmptyTexts(page) ==
    SelectSeq(Map(DiscoveredImages(page),
                  LAMBDA image : trim(recognize(ProviderGiven, image).text)),
              LAMBDA text : Len(text) > 0)

\* C27: in the document extract returns, the chunks of type image of each page are
\* one chunk per image of the page whose recognized text is non-empty after
\* trimming (none for an image read as empty), in image-discovery order, each
\* tagged with the page, the k-th of them labelled image-k.
C27_ImageChunksInDiscoveryOrder ==
    (/\ extracted.called /\ extracted.extractor = "pdf-lib" /\ extracted.result.ok) =>
        \A n \in 1..Len(given.buffer.pages) :
           Let(ImageChunksOfPage(extracted.result.doc.chunks, n), LAMBDA imageChunks :
               /\ Len(imageChunks) = Len(NonEmptyTexts(given.buffer.pages[n]))
               /\ \A k \in 1..Len(imageChunks) :
                     /\ imageChunks[k].text = NonEmptyTexts(given.buffer.pages[n])[k]
                     /\ imageChunks[k].section = <<"image", k>>
                     /\ imageChunks[k].page = n)

\* A page with one image and a page with three: read as blank, as a letter and as
\* a zero-width space.  The second page gives image-1 and image-2.
C27_Witness ==
    /\ extracted.called /\ extracted.extractor = "pdf-lib" /\ extracted.result.ok
    /\ given.buffer.pages = <<Page49, FallbackPage>>
    /\ Map(ImageChunksOfPage(extracted.result.doc.chunks, 1),
           LAMBDA chunk : <<chunk.text, chunk.section>>)
          = << <<(<<LetterB>>), (<<"image", 1>>)>> >>
    /\ Map(ImageChunksOfPage(extracted.result.doc.chunks, 2),
           LAMBDA chunk : <<chunk.text, chunk.section>>)
          = << <<(<<LetterA>>), (<<"image", 1>>)>>, <<(<<ZWSP>>), (<<"image", 2>>)>> >>

(***************************************************************************)
(* ocr-provider.ts: the embedded images of a page.  SpecImages gives the   *)
(* pdf-lib extractor a PDF whose last page holds some image XObjects and a *)
(* ColorSpace dictionary; extract is called on it, or one of its images is *)
(* given to convertImageStreamToPng.                                       *)
(***************************************************************************)
MaxImages == 2

\* An entry of the ColorSpace dictionary of the resources: an array whose first
\* element is the name of its base.
ColorSpaceEntry(name) == [kind |-> "array", first |-> [kind |-> "name", name |-> name]]
ColorSpaceTable(entries) == [kind |-> "dict", entries |-> entries]

\* CS0 is gray; CS0 names itself; CS0 and CS1 name each other; CS0 is CMYK by way
\* of CS1; CS0 is based on a name that is neither a device space nor in the table;
\* a table without CS0.
SampleColorSpaceTables ==
    {ColorSpaceTable([CS0 |-> ColorSpaceEntry("DeviceGray")]),
     ColorSpaceTable([CS0 |-> ColorSpaceEntry("CS0")]),
     ColorSpaceTable([CS0 |-> ColorSpaceEntry("CS1"), CS1 |-> ColorSpaceEntry("CS0")]),
     ColorSpaceTable([CS0 |-> ColorSpaceEntry("CS1"), CS1 |-> ColorSpaceEntry("DeviceCMYK")]),
     ColorSpaceTable([CS0 |-> ColorSpaceEntry("Lab")]),
     ColorSpaceTable([CS1 |-> ColorSpaceEntry("DeviceGray")])}

ImageFilters == {"", "FlateDecode", "DCTDecode"}
ImageColorSpaceNames == {"", "DeviceGray", "DeviceRGB", "DeviceCMYK", "CS0", "Lab"}

\* What the OCR engine reads in the sample image of a filter.
ReadIn(filterName) ==
    IF filterName = "" THEN Text(<<LetterA>>)
    ELSE IF filterName = "FlateDecode" THEN Text(<<SP, LetterB, SP>>)
    ELSE Text(<<LetterA, LetterB>>)

\* An image without Width (or with a Width that is no number).
NoSizeImage ==
    [ImageStream("FlateDecode", "DeviceGray", Text(<<LetterA>>)) EXCEPT !.hasSize = FALSE]
\* An image whose stream does not inflate.
TruncatedImage ==
    [ImageStream("FlateDecode", "DeviceGray", Text(<<LetterA>>)) EXCEPT !.decodes = FALSE]
\* A JPEG and a raw raster whose bytes sharp rejects.
BrokenJpeg == [ImageStream("DCTDecode", "", Text(<<LetterA>>)) EXCEPT !.sharp = "rejects"]
BrokenRaster == [ImageStream("", "DeviceRGB", Text(<<LetterA>>)) EXCEPT !.sharp = "rejects"]
\* A JPEG stream without contents and a raw raster of Width 0: sharp throws at once.
EmptyJpeg == [ImageStream("DCTDecode", "", Text(<<LetterA>>)) EXCEPT !.sharp = "throws"]
FlatRaster == [ImageStream("", "DeviceRGB", Text(<<LetterA>>)) EXCEPT !.sharp = "throws"]
\* One bit per component.
OneBitImage == [ImageStream("", "DeviceGray", Text(<<LetterA>>)) EXCEPT !.bits = 1]
\* An image in which the OCR engine reads only a space.
BlankImage == ImageStream("DCTDecode", "DeviceRGB", Text(<<SP>>))

SampleImages ==
    {ImageStream(filterName, colorSpaceName, ReadIn(filterName)) :
        filterName \in ImageFilters, colorSpaceName \in ImageColorSpaceNames}
    \cup {NoSizeImage, TruncatedImage, BrokenJpeg, BrokenRaster, EmptyJpeg, FlatRaster,
          OneBitImage, BlankImage}

\* A page with the structured text "Hi", these image XObjects and this ColorSpace
\* dictionary.
ImagePage(entries, colorSpaces) ==
    PdfPage(<<TextItem(<<72, 105>>)>>, NoContents,
            [present |-> TRUE, xObjects |-> [kind |-> "dict", entries |-> entries],
             colorSpaces |-> colorSpaces])

InitImages ==
    /\ IdleText
    /\ IdleNorm
    /\ IdleRouter
    /\ IdlePost
    /\ IdleLexer
    /\ IdleOcrClient
    /\ uuidCount = 0
    /\ \E n \in 1..MaxImages, leading \in {<< >>, <<EmptyPage>>} :
         \E entries \in [1..n -> SampleImages] :
           \/ \E colorSpaces \in SampleColorSpaceTables :
                given = [called |-> TRUE,
                         buffer |-> Pdf(leading \o <<ImagePage(entries, colorSpaces)>>),
                         fileName |-> "report.pdf", ocrProvider |-> NoProvider,
                         openaiKey |-> "unset"]
           \/ given = [called |-> TRUE,
                       buffer |-> Pdf(leading \o <<ImagePage(entries, NoDict)>>),
                       fileName |-> "report.pdf", ocrProvider |-> NoProvider,
                       openaiKey |-> "unset"]
    /\ extracted = NoCall
    /\ finished = NoDoc
    /\ recognition = NoCall
    /\ conversion = NoCall
    /\ instance = NoCall

\* convertImageStreamToPng on an image XObject of the given PDF: the color space
\* it resolved (or the error of the resolution) and what it returned or threw.
ConvertImage ==
    /\ conversion = NoCall
    /\ extracted = NoCall
    /\ given.buffer.kind = "pdf"
    /\ \E n \in 1..(MaxPages + 1), k \in 1..MaxImages :
         /\ n <= Len(given.buffer.pages)
         /\ given.buffer.pages[n].resources.xObjects.kind = "dict"
         /\ k <= Len(given.buffer.pages[n].resources.xObjects.entries)
         /\ given.buffer.pages[n].resources.xObjects.entries[k].kind = "stream"
         /\ conversion' =
              Let(given.buffer.pages[n].resources.xObjects.entries[k], LAMBDA image :
                  [called |-> TRUE, page |-> n, image |-> image,
                   colorSpace |-> IF image.colorSpace.kind = "array"
                                  THEN UnexpectedObjectType
                                  ELSE resolveColorSpace(image.colorSpace,
                                                         given.buffer.pages[n].resources),
                   result |-> convertImageStreamToPng(image,
                                                      given.buffer.pages[n].resources)])
    /\ UNCHANGED <<given, extracted, finished, recognition, instance, uuidCount, textVars,
                   normVars, routerVars, postVars, lexVars, clientVars>>

NextImages ==
    \/ ExtractPdfLib
    \/ ConvertImage

SpecImages == InitImages /\ [][NextImages]_vars

\* The decoding of this image fails: its Width or Height is missing or no number,
\* its stream does not inflate, or the codec rejects it.
DecodeFails(image) == ~image.hasSize \/ ~image.decodes \/ image.sharp # "resolves"

\* The same PDF without the images whose decoding fails.
WithoutUndecodable(buffer) ==
    [buffer EXCEPT !.pages =
        [n \in 1..Len(buffer.pages) |->
            [buffer.pages[n] EXCEPT !.resources.xObjects.entries =
                SelectSeq(@, LAMBDA image : ~DecodeFails(image))]]]

\* The pdf-lib extractor was given a PDF with an image whose decoding fails.
DecodeFailureGiven ==
    /\ extracted.called /\ extracted.extractor = "pdf-lib"
    /\ \E image \in ImagesOf(given.buffer) : DecodeFails(image)

\* C24: a failure while decoding one embedded image (a missing or non-numeric
\* Width or Height, a stream that does not inflate, a codec error) is recovered:
\* the image is skipped, the other images of the page are decoded and recognized,
\* and extract does not fail: it returns the document the PDF gives without the
\* image (whenever it returns one for that PDF).
C24_DecodeFailureRecovered ==
    DecodeFailureGiven =>
        Let(PdfExtractor_extract_pdflib(WithoutUndecodable(given.buffer), given.fileName,
                                        0, given.ocrProvider, given.openaiKey),
            LAMBDA without :
            without.ok => /\ extracted.result.ok
                          /\ extracted.result.doc = without.doc)

\* An image without a JPEG-family filter that the raw raster branch takes and whose
\* samples inflate and are accepted by sharp.
RasterBranch(image) ==
    /\ \A k \in 1..Len(getFilterNames(image.filter)) :
          getFilterNames(image.filter)[k] = "FlateDecode"
    /\ image.class = "PDFRawStream" /\ image.bits \in {0, DEFAULT_BITS_PER_COMPONENT}
    /\ image.hasSize /\ image.decodes /\ image.sharp = "resolves"

\* The color space of the image resolves to none of the three device spaces.
Unresolvable(image, resources) ==
    /\ image.colorSpace.kind = "name"
    /\ resolveColorSpace(image.colorSpace, resources) = ColorSpace(NoColorSpace)

\* The channel counts C25 gives for the resolved device spaces.
ChannelsAsStated ==
    (/\ conversion.called /\ RasterBranch(conversion.image)
     /\ conversion.colorSpace.ok /\ conversion.colorSpace.kind \in DeviceColorSpaces) =>
        conversion.result
            = Raster(CASE conversion.colorSpace.kind = "DeviceGray" -> 1
                       [] conversion.colorSpace.kind = "DeviceRGB" -> 3
                       [] conversion.colorSpace.kind = "DeviceCMYK" -> 4)

\* C25: for an image without a JPEG-family filter the resolved color space maps
\* to 1 channel for DeviceGray, 3 for DeviceRGB and 4 for DeviceCMYK, and for any
\* other or unresolvable color space (an unknown name absent from the page's
\* color-space table) decoding is abandoned: no raster is produced and the image
\* contributes no chunk.
C25_UnresolvableColorSpaceAbandoned ==
    /\ ChannelsAsStated
    /\ (/\ conversion.called /\ RasterBranch(conversion.image)
        /\ Unresolvable(conversion.image, given.buffer.pages[conversion.page].resources)) =>
          conversion.result = Png(FALSE)
    /\ (/\ extracted.called /\ extracted.extractor = "pdf-lib" /\ extracted.result.ok
        /\ \A n \in 1..Len(given.buffer.pages) :
             \A k \in 1..Len(given.buffer.pages[n].resources.xObjects.entries) :
                /\ RasterBranch(given.buffer.pages[n].resources.xObjects.entries[k])
                /\ Unresolvable(given.buffer.pages[n].resources.xObjects.entries[k],
                                given.buffer.pages[n].resources)) =>
          \A i \in 1..Len(extracted.result.doc.chunks) :
             extracted.result.doc.chunks[i].type # "image"

\* Following the first element of each entry of the table of the resources from a
\* color-space name leads back to a name already passed: the name refers back to
\* itself, directly or through a cycle of names.
RECURSIVE LeadsBack(_, _, _)
LeadsBack(name, resources, passed) ==
    IF name \in passed THEN TRUE
    ELSE IF \/ name = "" \/ name \in DeviceColorSpaces
            \/ resources.colorSpaces.kind # "dict"
            \/ name \notin DOMAIN resources.colorSpaces.entries
    THEN FALSE
    ELSE LeadsBack(resources.colorSpaces.entries[name].first.name, resources,
                   passed \cup {name})

RefersBackToItself(name, resources) == LeadsBack(name, resources, {})

\* C26: color-space resolution terminates for every color-space table, also one
\* whose named entry refers back to itself directly or through a cycle of names:
\* the resolution gives a color space or, past a bounded depth, "undecodable"
\* (null), and never an error; a name that refers back to itself is undecodable,
\* and extract does not fail on such a table.
C26_ColorSpaceResolutionTerminates ==
    /\ (conversion.called /\ conversion.image.colorSpace.kind = "name") =>
          /\ conversion.colorSpace.ok
          /\ RefersBackToItself(conversion.image.colorSpace.name,
                                given.buffer.pages[conversion.page].resources)
                => (conversion.colorSpace.kind = NoColorSpace /\ conversion.result.ok)
    /\ (/\ extracted.called /\ extracted.extractor = "pdf-lib"
        /\ \A image \in ImagesOf(given.buffer) : ~DecodeFails(image)) =>
          extracted.result.ok

(***************************************************************************)
(* ocr-provider.ts: one PdfExtractor object.  SpecInstance constructs an   *)
(* extractor with or without an OcrProvider and calls extract on it some   *)
(* times.  extract is async: a call is pending from its first await on,    *)
(* other calls start and go on meanwhile, and the field ocrProvider, which *)
(* lives from call to call, is written in the middle of a call, by         *)
(* getOrCreateOcrProvider, before the call waits for the recognition.      *)
(* process.env.OPENAI_API_KEY is what it is when createDefaultOcrProvider  *)
(* reads it.                                                               *)
(***************************************************************************)
MaxCalls == 2

\* PDFs without an image, with images, with an image the OCR engine fails on, with
\* a page that throws before its images are looked at, and a buffer that is no PDF.
InstancePdfs ==
    {Pdf(<<Page51>>), Pdf(<<Page49>>), Pdf(<<Page51, FallbackPage>>), Pdf(<<MixedPage>>),
     Pdf(<<BrokenStreamPage, Page49>>), BufCorrupt}

\* new PdfExtractor(options): the field ocrProvider is the provider of the options
\* or null.
InitInstance ==
    /\ IdleText
    /\ IdleNorm
    /\ IdleRouter
    /\ IdlePost
    /\ IdleLexer
    /\ IdleOcrClient
    /\ uuidCount = 0
    /\ given = NoCall
    /\ extracted = NoCall
    /\ finished = NoDoc
    /\ recognition = NoCall
    /\ conversion = NoCall
    /\ \E supplied \in OcrProviders \cup {NoProvider} :
         instance = [called |-> TRUE, supplied |-> supplied, ocrProvider |-> supplied,
                     calls |-> << >>]

\* extract on the buffer gets to getOrCreateOcrProvider: a page has an image to
\* recognize and nothing throws before it.
ReachesRecognition(buffer) ==
    PdfExtractor_extract_pdflib(buffer, "report.pdf", 0, NoProvider, "unset").ocrProvider
        # NoProvider

\* What a call returned or threw.
Outcome(result) == [field \in DOMAIN result \ {"ocrProvider"} |-> result[field]]

\* extract is called and waits for PDFDocument.load: of the call the buffer and the
\* field ocrProvider at the call.
InstanceExtract ==
    /\ instance.called
    /\ Len(instance.calls) < MaxCalls
    /\ \E buffer \in InstancePdfs :
         instance' = [instance EXCEPT
                        !.calls = Append(@, [buffer |-> buffer,
                                             before |-> instance.ocrProvider,
                                             pc |-> "pending",
                                             created |-> FALSE,
                                             openaiKey |-> "",
                                             provider |-> NoProvider,
                                             result |-> NoCall])]
    /\ UNCHANGED <<given, extracted, finished, recognition, conversion, uuidCount, textVars,
                   normVars, routerVars, postVars, lexVars, clientVars>>

\* A pending call has the images of a page and calls getOrCreateOcrProvider, which
\* creates the default provider when the field is null (reading the key), writes
\* the field and returns it; the call then waits for the recognition.
InstanceSelect(i) ==
    /\ instance.called
    /\ i <= Len(instance.calls)
    /\ instance.calls[i].pc = "pending"
    /\ ReachesRecognition(instance.calls[i].buffer)
    /\ \E openaiKey \in OpenAiKeys :
         Let(getOrCreateOcrProvider(instance.ocrProvider, openaiKey), LAMBDA provider :
             instance' = [instance EXCEPT
                            !.ocrProvider = provider,
                            !.calls[i].pc = "recognizing",
                            !.calls[i].created = (instance.ocrProvider = NoProvider),
                            !.calls[i].openaiKey =
                               IF instance.ocrProvider = NoProvider THEN openaiKey ELSE "",
                            !.calls[i].provider = provider])
    /\ UNCHANGED <<given, extracted, finished, recognition, conversion, uuidCount, textVars,
                   normVars, routerVars, postVars, lexVars, clientVars>>

\* A call returns its document, drawing the documentId, or throws: after the
\* recognition with the provider it got, or without having come to one.
InstanceReturn(i) ==
    /\ instance.called
    /\ i <= Len(instance.calls)
    /\ \/ instance.calls[i].pc = "recognizing"
       \/ instance.calls[i].pc = "pending" /\ ~ReachesRecognition(instance.calls[i].buffer)
    /\ Let(PdfExtractor_extract_pdflib(instance.calls[i].buffer, "report.pdf", uuidCount,
                                       instance.calls[i].provider, instance.calls[i].openaiKey),
           LAMBDA result :
           /\ instance' = [instance EXCEPT !.calls[i].pc = "settled",
                                           !.calls[i].result = Outcome(result)]
           /\ uuidCount' = UuidsAfter(result))
    /\ UNCHANGED <<given, extracted, finished, recognition, conversion, textVars, normVars,
                   routerVars, postVars, lexVars, clientVars>>

NextInstance ==
    \/ InstanceExtract
    \/ \E i \in 1..MaxCalls : InstanceSelect(i)
    \/ \E i \in 1..MaxCalls : InstanceReturn(i)

SpecInstance == InitInstance /\ [][NextInstance]_vars

\* The calls in which the default provider was created.
Selections == {i \in 1..Len(instance.calls) : instance.calls[i].created}

\* The buffer has an image that is handed to recognition.
HasImageToRecognize(buffer) ==
    /\ buffer.kind = "pdf"
    /\ \E n \in 1..Len(buffer.pages) :
          /\ buffer.pages[n].resources.present
          /\ buffer.pages[n].resources.xObjects.kind = "dict"
          /\ \E k \in 1..Len(buffer.pages[n].resources.xObjects.entries) :
                Let(buffer.pages[n].resources.xObjects.entries[k], LAMBDA image :
                    /\ image.kind = "stream" /\ image.subtype = "Image"
                    /\ convertImageStreamToPng(image, buffer.pages[n].resources).ok
                    /\ convertImageStreamToPng(image, buffer.pages[n].resources).png)

\* C28: across the extract calls on one PdfExtractor, overlapping or not, the
\* default provider is created at most once, in a call that found the field null
\* and whose PDF has an image to recognize; once the field holds a provider it
\* keeps it, and every call that comes to a recognition uses that provider; with a
\* provider supplied at construction the default is never created; and the
\* creation gives the OpenAI provider when the key is set and the provider
\* constructs, and the Tesseract provider otherwise: a failed construction raises
\* no error, the call gives what it gives on an extractor constructed with the
\* Tesseract provider.
C28_DefaultProviderSelectedOnce ==
    instance.called =>
        /\ Cardinality(Selections) <= 1
        /\ instance.supplied # NoProvider =>
              (Selections = {} /\ instance.ocrProvider = instance.supplied)
        /\ \A i \in 1..Len(instance.calls) :
              Let(instance.calls[i], LAMBDA call :
                  /\ call.before # NoProvider => instance.ocrProvider = call.before
                  /\ (call.pc = "recognizing" \/ call.provider # NoProvider) =>
                        /\ call.provider # NoProvider
                        /\ call.provider = instance.ocrProvider
                  /\ (call.pc = "settled" /\ call.provider = NoProvider /\ call.result.ok) =>
                        \A n \in 1..Len(call.result.doc.chunks) :
                           call.result.doc.chunks[n].type # "image"
                  /\ i \in Selections =>
                        /\ call.before = NoProvider
                        /\ HasImageToRecognize(call.buffer)
                        /\ call.provider
                              = (IF call.openaiKey = "accepted"
                                 THEN "OpenAIVisionOcrProvider" ELSE "TesseractOcrProvider")
                        /\ (call.openaiKey # "accepted" /\ call.pc = "settled") =>
                              \E used \in 0..MaxCalls :
                                 call.result
                                    = Outcome(PdfExtractor_extract_pdflib(
                                                 call.buffer, "report.pdf", used,
                                                 "TesseractOcrProvider", "unset")))

\* An extractor constructed without a provider and two calls that overlap: both
\* found the field null when they were made.  The first, on a PDF with an image,
\* with the key set and the OpenAI client refusing to construct, creates the
\* Tesseract provider; the second comes to its image later, recognizes it with
\* that provider and returns first; then the first returns its document.
C28_Witness ==
    /\ instance.called /\ instance.supplied = NoProvider
    /\ Len(instance.calls) = 2
    /\ instance.calls[1].before = NoProvider
    /\ instance.calls[2].before = NoProvider
    /\ instance.calls[1].created
    /\ instance.calls[1].openaiKey = "refused"
    /\ instance.calls[1].buffer = Pdf(<<Page49>>)
    /\ instance.calls[1].pc = "settled"
    /\ instance.calls[1].result.ok
    /\ instance.calls[1].provider = "TesseractOcrProvider"
    /\ instance.calls[2].buffer = Pdf(<<Page51, FallbackPage>>)
    /\ instance.calls[2].pc = "settled"
    /\ instance.calls[2].result.ok
    /\ instance.calls[2].result.doc.metadata.imageOcrPages = <<2>>
    /\ instance.calls[2].provider = "TesseractOcrProvider"
    /\ instance.calls[2].result.doc.documentId[1] < instance.calls[1].result.doc.documentId[1]
    /\ instance.ocrProvider = "TesseractOcrProvider"
    /\ Selections = {1}

(***************************************************************************)
(* route.ts: the upload endpoint.  A file name, a header value and the     *)
(* text of a number are strings of code units; a media type is a string.   *)
(***************************************************************************)
MAX_FILE_SIZE == 50 * 1024 * 1024

Dot == 46

\* String.prototype.toLowerCase maps every code point by the Unicode default case
\* conversion (Unicode 17), whatever the locale.  A row <<first, last, step, delta>>
\* of LowerRanges says: each code point first, first + step, ..., last has the one
\* lower-case code point at distance delta.  Basic Latin is A-Z only.
LowerRanges ==
  <<
     <<192, 214, 1, 32>>, <<216, 222, 1, 32>>, <<256, 302, 2, 1>>, <<306, 310, 2, 1>>,
     <<313, 327, 2, 1>>, <<330, 374, 2, 1>>, <<376, 376, 1, -121>>, <<377, 381, 2, 1>>,
     <<385, 385, 1, 210>>, <<386, 388, 2, 1>>, <<390, 390, 1, 206>>, <<391, 391, 1, 1>>,
     <<393, 394, 1, 205>>, <<395, 395, 1, 1>>, <<398, 398, 1, 79>>, <<399, 399, 1, 202>>,
     <<400, 400, 1, 203>>, <<401, 401, 1, 1>>, <<403, 403, 1, 205>>, <<404, 404, 1, 207>>,
     <<406, 406, 1, 211>>, <<407, 407, 1, 209>>, <<408, 408, 1, 1>>, <<412, 412, 1, 211>>,
     <<413, 413, 1, 213>>, <<415, 415, 1, 214>>, <<416, 420, 2, 1>>, <<422, 422, 1, 218>>,
     <<423, 423, 1, 1>>, <<425, 425, 1, 218>>, <<428, 428, 1, 1>>, <<430, 430, 1, 218>>,
     <<431, 431, 1, 1>>, <<433, 434, 1, 217>>, <<435, 437, 2, 1>>, <<439, 439, 1, 219>>,
     <<440, 440, 1, 1>>, <<444, 444, 1, 1>>, <<452, 452, 1, 2>>, <<453, 453, 1, 1>>,
     <<455, 455, 1, 2>>, <<456, 456, 1, 1>>, <<458, 458, 1, 2>>, <<459, 475, 2, 1>>,
     <<478, 494, 2, 1>>, <<497, 497, 1, 2>>, <<498, 500, 2, 1>>, <<502, 502, 1, -97>>,
     <<503, 503, 1, -56>>, <<504, 542, 2, 1>>, <<544, 544, 1, -130>>, <<546, 562, 2, 1>>,
     <<570, 570, 1, 10795>>, <<571, 571, 1, 1>>, <<573, 573, 1, -163>>, <<574, 574, 1, 10792>>,
     <<577, 577, 1, 1>>, <<579, 579, 1, -195>>, <<580, 580, 1, 69>>, <<581, 581, 1, 71>>,
     <<582, 590, 2, 1>>, <<880, 882, 2, 1>>, <<886, 886, 1, 1>>, <<895, 895, 1, 116>>,
     <<902, 902, 1, 38>>, <<904, 906, 1, 37>>, <<908, 908, 1, 64>>, <<910, 911, 1, 63>>,
     <<913, 929, 1, 32>>, <<931, 939, 1, 32>>, <<975, 975, 1, 8>>, <<984, 1006, 2, 1>>,
     <<1012, 1012, 1, -60>>, <<1015, 1015, 1, 1>>, <<1017, 1017, 1, -7>>, <<1018, 1018, 1, 1>>,
     <<1021, 1023, 1, -130>>, <<1024, 1039, 1, 80>>, <<1040, 1071, 1, 32>>,
     <<1120, 1152, 2, 1>>, <<1162, 1214, 2, 1>>, <<1216, 1216, 1, 15>>, <<1217, 1229, 2, 1>>,
     <<1232, 1326, 2, 1>>, <<1329, 1366, 1, 48>>, <<4256, 4293, 1, 7264>>,
     <<4295, 4295, 1, 7264>>, <<4301, 4301, 1, 7264>>, <<5024, 5103, 1, 38864>>,
     <<5104, 5109, 1, 8>>, <<7305, 7305, 1, 1>>, <<7312, 7354, 1, -3008>>,
     <<7357, 7359, 1, -3008>>, <<7680, 7828, 2, 1>>, <<7838, 7838, 1, -7615>>,
     <<7840, 7934, 2, 1>>, <<7944, 7951, 1, -8>>, <<7960, 7965, 1, -8>>, <<7976, 7983, 1, -8>>,
     <<7992, 7999, 1, -8>>, <<8008, 8013, 1, -8>>, <<8025, 8031, 2, -8>>,
     <<8040, 8047, 1, -8>>, <<8072, 8079, 1, -8>>, <<8088, 8095, 1, -8>>,
     <<8104, 8111, 1, -8>>, <<8120, 8121, 1, -8>>, <<8122, 8123, 1, -74>>,
     <<8124, 8124, 1, -9>>, <<8136, 8139, 1, -86>>, <<8140, 8140, 1, -9>>,
     <<8152, 8153, 1, -8>>, <<8154, 8155, 1, -100>>, <<8168, 8169, 1, -8>>,
     <<8170, 8171, 1, -112>>, <<8172, 8172, 1, -7>>, <<8184, 8185, 1, -128>>,
     <<8186, 8187, 1, -126>>, <<8188, 8188, 1, -9>>, <<8486, 8486, 1, -7517>>,
     <<8490, 8490, 1, -8383>>, <<8491, 8491, 1, -8262>>, <<8498, 8498, 1, 28>>,
     <<8544, 8559, 1, 16>>, <<8579, 8579, 1, 1>>, <<9398, 9423, 1, 26>>,
     <<11264, 11311, 1, 48>>, <<11360, 11360, 1, 1>>, <<11362, 11362, 1, -10743>>,
     <<11363, 11363, 1, -3814>>, <<11364, 11364, 1, -10727>>, <<11367, 11371, 2, 1>>,
     <<11373, 11373, 1, -10780>>, <<11374, 11374, 1, -10749>>, <<11375, 11375, 1, -10783>>,
     <<11376, 11376, 1, -10782>>, <<11378, 11378, 1, 1>>, <<11381, 11381, 1, 1>>,
     <<11390, 11391, 1, -10815>>, <<11392, 11490, 2, 1>>, <<11499, 11501, 2, 1>>,
     <<11506, 11506, 1, 1>>, <<42560, 42604, 2, 1>>, <<42624, 42650, 2, 1>>,
     <<42786, 42798, 2, 1>>, <<42802, 42862, 2, 1>>, <<42873, 42875, 2, 1>>,
     <<42877, 42877, 1, -35332>>, <<42878, 42886, 2, 1>>, <<42891, 42891, 1, 1>>,
     <<42893, 42893, 1, -42280>>, <<42896, 42898, 2, 1>>, <<42902, 42920, 2, 1>>,
     <<42922, 42922, 1, -42308>>, <<42923, 42923, 1, -42319>>, <<42924, 42924, 1, -42315>>,
     <<42925, 42925, 1, -42305>>, <<42926, 42926, 1, -42308>>, <<42928, 42928, 1, -42258>>,
     <<42929, 42929, 1, -42282>>, <<42930, 42930, 1, -42261>>, <<42931, 42931, 1, 928>>,
     <<42932, 42946, 2, 1>>, <<42948, 42948, 1, -48>>, <<42949, 42949, 1, -42307>>,
     <<42950, 42950, 1, -35384>>, <<42951, 42953, 2, 1>>, <<42955, 42955, 1, -42343>>,
     <<42956, 42970, 2, 1>>, <<42972, 42972, 1, -42561>>, <<42997, 42997, 1, 1>>,
     <<65313, 65338, 1, 32>>, <<66560, 66599, 1, 40>>, <<66736, 66771, 1, 40>>,
     <<66928, 66938, 1, 39>>, <<66940, 66954, 1, 39>>, <<66956, 66962, 1, 39>>,
     <<66964, 66965, 1, 39>>, <<68736, 68786, 1, 64>>, <<68944, 68965, 1, 32>>,
     <<71840, 71871, 1, 32>>, <<93760, 93791, 1, 32>>, <<93856, 93880, 1, 27>>,
     <<125184, 125217, 1, 34>>
  >>

\* The code points with the property Cased, as rows <<first, last>>.
Cased ==
  <<
     <<65, 90>>, <<97, 122>>, <<170, 170>>, <<181, 181>>, <<186, 186>>, <<192, 214>>,
     <<216, 246>>, <<248, 442>>, <<444, 447>>, <<452, 659>>, <<662, 696>>, <<704, 705>>,
     <<736, 740>>, <<837, 837>>, <<880, 883>>, <<886, 887>>, <<890, 893>>, <<895, 895>>,
     <<902, 902>>, <<904, 906>>, <<908, 908>>, <<910, 929>>, <<931, 1013>>, <<1015, 1153>>,
     <<1162, 1327>>, <<1329, 1366>>, <<1376, 1416>>, <<4256, 4293>>, <<4295, 4295>>,
     <<4301, 4301>>, <<4304, 4346>>, <<4348, 4351>>, <<5024, 5109>>, <<5112, 5117>>,
     <<7296, 7306>>, <<7312, 7354>>, <<7357, 7359>>, <<7424, 7615>>, <<7680, 7957>>,
     <<7960, 7965>>, <<7968, 8005>>, <<8008, 8013>>, <<8016, 8023>>, <<8025, 8025>>,
     <<8027, 8027>>, <<8029, 8029>>, <<8031, 8061>>, <<8064, 8116>>, <<8118, 8124>>,
     <<8126, 8126>>, <<8130, 8132>>, <<8134, 8140>>, <<8144, 8147>>, <<8150, 8155>>,
     <<8160, 8172>>, <<8178, 8180>>, <<8182, 8188>>, <<8305, 8305>>, <<8319, 8319>>,
     <<8336, 8348>>, <<8450, 8450>>, <<8455, 8455>>, <<8458, 8467>>, <<8469, 8469>>,
     <<8473, 8477>>, <<8484, 8484>>, <<8486, 8486>>, <<8488, 8488>>, <<8490, 8493>>,
     <<8495, 8500>>, <<8505, 8505>>, <<8508, 8511>>, <<8517, 8521>>, <<8526, 8526>>,
     <<8544, 8575>>, <<8579, 8580>>, <<9398, 9449>>, <<11264, 11492>>, <<11499, 11502>>,
     <<11506, 11507>>, <<11520, 11557>>, <<11559, 11559>>, <<11565, 11565>>, <<42560, 42605>>,
     <<42624, 42653>>, <<42786, 42887>>, <<42891, 42894>>, <<42896, 42972>>, <<42993, 42998>>,
     <<43000, 43002>>, <<43824, 43866>>, <<43868, 43881>>, <<43888, 43967>>, <<64256, 64262>>,
     <<64275, 64279>>, <<65313, 65338>>, <<65345, 65370>>, <<66560, 66639>>, <<66736, 66771>>,
     <<66776, 66811>>, <<66928, 66938>>, <<66940, 66954>>, <<66956, 66962>>, <<66964, 66965>>,
     <<66967, 66977>>, <<66979, 66993>>, <<66995, 67001>>, <<67003, 67004>>, <<67456, 67456>>,
     <<67459, 67461>>, <<67463, 67504>>, <<67506, 67514>>, <<68736, 68786>>, <<68800, 68850>>,
     <<68944, 68965>>, <<68976, 68997>>, <<71840, 71903>>, <<93760, 93823>>, <<93856, 93880>>,
     <<93883, 93907>>, <<119808, 119892>>, <<119894, 119964>>, <<119966, 119967>>,
     <<119970, 119970>>, <<119973, 119974>>, <<119977, 119980>>, <<119982, 119993>>,
     <<119995, 119995>>, <<119997, 120003>>, <<120005, 120069>>, <<120071, 120074>>,
     <<120077, 120084>>, <<120086, 120092>>, <<120094, 120121>>, <<120123, 120126>>,
     <<120128, 120132>>, <<120134, 120134>>, <<120138, 120144>>, <<120146, 120485>>,
     <<120488, 120512>>, <<120514, 120538>>, <<120540, 120570>>, <<120572, 120596>>,
     <<120598, 120628>>, <<120630, 120654>>, <<120656, 120686>>, <<120688, 120712>>,
     <<120714, 120744>>, <<120746, 120770>>, <<120772, 120779>>, <<122624, 122633>>,
     <<122635, 122654>>, <<122661, 122666>>, <<122928, 122989>>, <<125184, 125251>>,
     <<127280, 127305>>, <<127312, 127337>>, <<127344, 127369>>
  >>

\* The code points with the property Case_Ignorable, as rows <<first, last>>.
Case_Ignorable ==
  <<
     <<39, 39>>, <<46, 46>>, <<58, 58>>, <<94, 94>>, <<96, 96>>, <<168, 168>>, <<173, 173>>,
     <<175, 175>>, <<180, 180>>, <<183, 184>>, <<688, 879>>, <<884, 885>>, <<890, 890>>,
     <<900, 901>>, <<903, 903>>, <<1155, 1161>>, <<1369, 1369>>, <<1375, 1375>>,
     <<1425, 1469>>, <<1471, 1471>>, <<1473, 1474>>, <<1476, 1477>>, <<1479, 1479>>,
     <<1524, 1524>>, <<1536, 1541>>, <<1552, 1562>>, <<1564, 1564>>, <<1600, 1600>>,
     <<1611, 1631>>, <<1648, 1648>>, <<1750, 1757>>, <<1759, 1768>>, <<1770, 1773>>,
     <<1807, 1807>>, <<1809, 1809>>, <<1840, 1866>>, <<1958, 1968>>, <<2027, 2037>>,
     <<2042, 2042>>, <<2045, 2045>>, <<2070, 2093>>, <<2137, 2139>>, <<2184, 2184>>,
     <<2192, 2193>>, <<2199, 2207>>, <<2249, 2306>>, <<2362, 2362>>, <<2364, 2364>>,
     <<2369, 2376>>, <<2381, 2381>>, <<2385, 2391>>, <<2402, 2403>>, <<2417, 2417>>,
     <<2433, 2433>>, <<2492, 2492>>, <<2497, 2500>>, <<2509, 2509>>, <<2530, 2531>>,
     <<2558, 2558>>, <<2561, 2562>>, <<2620, 2620>>, <<2625, 2626>>, <<2631, 2632>>,
     <<2635, 2637>>, <<2641, 2641>>, <<2672, 2673>>, <<2677, 2677>>, <<2689, 2690>>,
     <<2748, 2748>>, <<2753, 2757>>, <<2759, 2760>>, <<2765, 2765>>, <<2786, 2787>>,
     <<2810, 2815>>, <<2817, 2817>>, <<2876, 2876>>, <<2879, 2879>>, <<2881, 2884>>,
     <<2893, 2893>>, <<2901, 2902>>, <<2914, 2915>>, <<2946, 2946>>, <<3008, 3008>>,
     <<3021, 3021>>, <<3072, 3072>>, <<3076, 3076>>, <<3132, 3132>>, <<3134, 3136>>,
     <<3142, 3144>>, <<3146, 3149>>, <<3157, 3158>>, <<3170, 3171>>, <<3201, 3201>>,
     <<3260, 3260>>, <<3263, 3263>>, <<3270, 3270>>, <<3276, 3277>>, <<3298, 3299>>,
     <<3328, 3329>>, <<3387, 3388>>, <<3393, 3396>>, <<3405, 3405>>, <<3426, 3427>>,
     <<3457, 3457>>, <<3530, 3530>>, <<3538, 3540>>, <<3542, 3542>>, <<3633, 3633>>,
     <<3636, 3642>>, <<3654, 3662>>, <<3761, 3761>>, <<3764, 3772>>, <<3782, 3782>>,
     <<3784, 3790>>, <<3864, 3865>>, <<3893, 3893>>, <<3895, 3895>>, <<3897, 3897>>,
     <<3953, 3966>>, <<3968, 3972>>, <<3974, 3975>>, <<3981, 3991>>, <<3993, 4028>>,
     <<4038, 4038>>, <<4141, 4144>>, <<4146, 4151>>, <<4153, 4154>>, <<4157, 4158>>,
     <<4184, 4185>>, <<4190, 4192>>, <<4209, 4212>>, <<4226, 4226>>, <<4229, 4230>>,
     <<4237, 4237>>, <<4253, 4253>>, <<4348, 4348>>, <<4957, 4959>>, <<5906, 5908>>,
     <<5938, 5939>>, <<5970, 5971>>, <<6002, 6003>>, <<6068, 6069>>, <<6071, 6077>>,
     <<6086, 6086>>, <<6089, 6099>>, <<6103, 6103>>, <<6109, 6109>>, <<6155, 6159>>,
     <<6211, 6211>>, <<6277, 6278>>, <<6313, 6313>>, <<6432, 6434>>, <<6439, 6440>>,
     <<6450, 6450>>, <<6457, 6459>>, <<6679, 6680>>, <<6683, 6683>>, <<6742, 6742>>,
     <<6744, 6750>>, <<6752, 6752>>, <<6754, 6754>>, <<6757, 6764>>, <<6771, 6780>>,
     <<6783, 6783>>, <<6823, 6823>>, <<6832, 6877>>, <<6880, 6891>>, <<6912, 6915>>,
     <<6964, 6964>>, <<6966, 6970>>, <<6972, 6972>>, <<6978, 6978>>, <<7019, 7027>>,
     <<7040, 7041>>, <<7074, 7077>>, <<7080, 7081>>, <<7083, 7085>>, <<7142, 7142>>,
     <<7144, 7145>>, <<7149, 7149>>, <<7151, 7153>>, <<7212, 7219>>, <<7222, 7223>>,
     <<7288, 7293>>, <<7376, 7378>>, <<7380, 7392>>, <<7394, 7400>>, <<7405, 7405>>,
     <<7412, 7412>>, <<7416, 7417>>, <<7468, 7530>>, <<7544, 7544>>, <<7579, 7679>>,
     <<8125, 8125>>, <<8127, 8129>>, <<8141, 8143>>, <<8157, 8159>>, <<8173, 8175>>,
     <<8189, 8190>>, <<8203, 8207>>, <<8216, 8217>>, <<8228, 8228>>, <<8231, 8231>>,
     <<8234, 8238>>, <<8288, 8292>>, <<8294, 8303>>, <<8305, 8305>>, <<8319, 8319>>,
     <<8336, 8348>>, <<8400, 8432>>, <<11388, 11389>>, <<11503, 11505>>, <<11631, 11631>>,
     <<11647, 11647>>, <<11744, 11775>>, <<11823, 11823>>, <<12293, 12293>>, <<12330, 12333>>,
     <<12337, 12341>>, <<12347, 12347>>, <<12441, 12446>>, <<12540, 12542>>, <<40981, 40981>>,
     <<42232, 42237>>, <<42508, 42508>>, <<42607, 42610>>, <<42612, 42621>>, <<42623, 42623>>,
     <<42652, 42655>>, <<42736, 42737>>, <<42752, 42785>>, <<42864, 42864>>, <<42888, 42890>>,
     <<42993, 42996>>, <<43000, 43001>>, <<43010, 43010>>, <<43014, 43014>>, <<43019, 43019>>,
     <<43045, 43046>>, <<43052, 43052>>, <<43204, 43205>>, <<43232, 43249>>, <<43263, 43263>>,
     <<43302, 43309>>, <<43335, 43345>>, <<43392, 43394>>, <<43443, 43443>>, <<43446, 43449>>,
     <<43452, 43453>>, <<43471, 43471>>, <<43493, 43494>>, <<43561, 43566>>, <<43569, 43570>>,
     <<43573, 43574>>, <<43587, 43587>>, <<43596, 43596>>, <<43632, 43632>>, <<43644, 43644>>,
     <<43696, 43696>>, <<43698, 43700>>, <<43703, 43704>>, <<43710, 43711>>, <<43713, 43713>>,
     <<43741, 43741>>, <<43756, 43757>>, <<43763, 43764>>, <<43766, 43766>>, <<43867, 43871>>,
     <<43881, 43883>>, <<44005, 44005>>, <<44008, 44008>>, <<44013, 44013>>, <<64286, 64286>>,
     <<64434, 64450>>, <<65024, 65039>>, <<65043, 65043>>, <<65056, 65071>>, <<65106, 65106>>,
     <<65109, 65109>>, <<65279, 65279>>, <<65287, 65287>>, <<65294, 65294>>, <<65306, 65306>>,
     <<65342, 65342>>, <<65344, 65344>>, <<65392, 65392>>, <<65438, 65439>>, <<65507, 65507>>,
     <<65529, 65531>>, <<66045, 66045>>, <<66272, 66272>>, <<66422, 66426>>, <<67456, 67461>>,
     <<67463, 67504>>, <<67506, 67514>>, <<68097, 68099>>, <<68101, 68102>>, <<68108, 68111>>,
     <<68152, 68154>>, <<68159, 68159>>, <<68325, 68326>>, <<68900, 68903>>, <<68942, 68942>>,
     <<68969, 68973>>, <<68975, 68975>>, <<69291, 69292>>, <<69317, 69317>>, <<69370, 69375>>,
     <<69446, 69456>>, <<69506, 69509>>, <<69633, 69633>>, <<69688, 69702>>, <<69744, 69744>>,
     <<69747, 69748>>, <<69759, 69761>>, <<69811, 69814>>, <<69817, 69818>>, <<69821, 69821>>,
     <<69826, 69826>>, <<69837, 69837>>, <<69888, 69890>>, <<69927, 69931>>, <<69933, 69940>>,
     <<70003, 70003>>, <<70016, 70017>>, <<70070, 70078>>, <<70089, 70092>>, <<70095, 70095>>,
     <<70191, 70193>>, <<70196, 70196>>, <<70198, 70199>>, <<70206, 70206>>, <<70209, 70209>>,
     <<70367, 70367>>, <<70371, 70378>>, <<70400, 70401>>, <<70459, 70460>>, <<70464, 70464>>,
     <<70502, 70508>>, <<70512, 70516>>, <<70587, 70592>>, <<70606, 70606>>, <<70608, 70608>>,
     <<70610, 70610>>, <<70625, 70626>>, <<70712, 70719>>, <<70722, 70724>>, <<70726, 70726>>,
     <<70750, 70750>>, <<70835, 70840>>, <<70842, 70842>>, <<70847, 70848>>, <<70850, 70851>>,
     <<71090, 71093>>, <<71100, 71101>>, <<71103, 71104>>, <<71132, 71133>>, <<71219, 71226>>,
     <<71229, 71229>>, <<71231, 71232>>, <<71339, 71339>>, <<71341, 71341>>, <<71344, 71349>>,
     <<71351, 71351>>, <<71453, 71453>>, <<71455, 71455>>, <<71458, 71461>>, <<71463, 71467>>,
     <<71727, 71735>>, <<71737, 71738>>, <<71995, 71996>>, <<71998, 71998>>, <<72003, 72003>>,
     <<72148, 72151>>, <<72154, 72155>>, <<72160, 72160>>, <<72193, 72202>>, <<72243, 72248>>,
     <<72251, 72254>>, <<72263, 72263>>, <<72273, 72278>>, <<72281, 72283>>, <<72330, 72342>>,
     <<72344, 72345>>, <<72544, 72544>>, <<72546, 72548>>, <<72550, 72550>>, <<72752, 72758>>,
     <<72760, 72765>>, <<72767, 72767>>, <<72850, 72871>>, <<72874, 72880>>, <<72882, 72883>>,
     <<72885, 72886>>, <<73009, 73014>>, <<73018, 73018>>, <<73020, 73021>>, <<73023, 73029>>,
     <<73031, 73031>>, <<73104, 73105>>, <<73109, 73109>>, <<73111, 73111>>, <<73177, 73177>>,
     <<73459, 73460>>, <<73472, 73473>>, <<73526, 73530>>, <<73536, 73536>>, <<73538, 73538>>,
     <<73562, 73562>>, <<78896, 78912>>, <<78919, 78933>>, <<90398, 90409>>, <<90413, 90415>>,
     <<92912, 92916>>, <<92976, 92982>>, <<92992, 92995>>, <<93504, 93506>>, <<93547, 93548>>,
     <<94031, 94031>>, <<94095, 94111>>, <<94176, 94177>>, <<94179, 94180>>, <<94194, 94195>>,
     <<110576, 110579>>, <<110581, 110587>>, <<110589, 110590>>, <<113821, 113822>>,
     <<113824, 113827>>, <<118528, 118573>>, <<118576, 118598>>, <<119143, 119145>>,
     <<119155, 119170>>, <<119173, 119179>>, <<119210, 119213>>, <<119362, 119364>>,
     <<121344, 121398>>, <<121403, 121452>>, <<121461, 121461>>, <<121476, 121476>>,
     <<121499, 121503>>, <<121505, 121519>>, <<122880, 122886>>, <<122888, 122904>>,
     <<122907, 122913>>, <<122915, 122916>>, <<122918, 122922>>, <<122928, 122989>>,
     <<123023, 123023>>, <<123184, 123197>>, <<123566, 123566>>, <<123628, 123631>>,
     <<124139, 124143>>, <<124398, 124399>>, <<124643, 124643>>, <<124646, 124646>>,
     <<124654, 124655>>, <<124661, 124661>>, <<124671, 124671>>, <<125136, 125142>>,
     <<125252, 125259>>, <<127995, 127999>>, <<917505, 917505>>, <<917536, 917631>>,
     <<917760, 917999>>
  >>

\* toLowerCase of one code point, whatever stands around it.
LowerPoint(c) ==
    IF c < 128 THEN (IF c \in 65..90 THEN c + 32 ELSE c)
    ELSE LET rows == {k \in DOMAIN LowerRanges :
                         /\ LowerRanges[k][1] <= c /\ c <= LowerRanges[k][2]
                         /\ (c - LowerRanges[k][1]) % LowerRanges[k][3] = 0}
         IN  IF rows = {} THEN c ELSE c + LowerRanges[Min(rows)][4]

\* toLowerCase of a code unit that is a code point of its own: U+0130 is the one
\* that lowercases to two units.
LowerUnit(c) == IF c = 304 THEN <<105, 775>> ELSE <<LowerPoint(c)>>

\* The one rule that looks around: a capital sigma (U+03A3) becomes the final
\* sigma (U+03C2) when the nearest code point before it that is not
\* Case_Ignorable is Cased and the nearest such code point after it is not.
FinalSigma(s) ==
    LET Pair(i) == /\ i >= 1 /\ i < Len(s)
                   /\ s[i] \in 55296..56319 /\ s[i + 1] \in 56320..57343
        PointAt(i) == IF Pair(i) THEN 65536 + (s[i] - 55296) * 1024 + (s[i + 1] - 56320)
                      ELSE s[i]
        Has(rows, c) == \E k \in DOMAIN rows : rows[k][1] <= c /\ c <= rows[k][2]
        Stops == {i \in 1..Len(s) : ~Pair(i - 1) /\ ~Has(Case_Ignorable, PointAt(i))}
        Final(i) ==
            LET before == {j \in Stops : j < i}
                after == {j \in Stops : j > i}
            IN  /\ before # {} /\ Has(Cased, PointAt(Max(before)))
                /\ ~(after # {} /\ Has(Cased, PointAt(Min(after))))
    IN  IF \A i \in 1..Len(s) : s[i] # 931 THEN s
        ELSE [i \in 1..Len(s) |-> IF s[i] = 931 /\ Final(i) THEN 962 ELSE s[i]]

\* A high surrogate followed by a low one is one code point, mapped as a whole
\* (its lower case is a pair again); every other unit is mapped on its own.
RECURSIVE LowerUnits(_)
LowerUnits(s) ==
    LET Pair(i) == /\ i >= 1 /\ i < Len(s)
                   /\ s[i] \in 55296..56319 /\ s[i + 1] \in 56320..57343
        Point(i) == 65536 + (s[i] - 55296) * 1024 + (s[i + 1] - 56320)
        High(c) == 55296 + ((c - 65536) \div 1024)
        Low(c) == 56320 + ((c - 65536) % 1024)
        long == {i \in 1..Len(s) : s[i] = 304}
    IN  IF long = {}
        THEN [i \in 1..Len(s) |->
                 IF Pair(i) THEN High(LowerPoint(Point(i)))
                 ELSE IF Pair(i - 1) THEN Low(LowerPoint(Point(i - 1)))
                 ELSE LowerPoint(s[i])]
        ELSE LET i == Min(long)
             IN  LowerUnits(SubSeq(s, 1, i - 1)) \o LowerUnit(s[i])
                    \o LowerUnits(SubSeq(s, i + 1, Len(s)))

\* s.toLowerCase()
toLowerCase(s) == LowerUnits(FinalSigma(s))

\* s.lastIndexOf(unit): zero-based, -1 when the unit does not occur.
lastIndexOf(s, unit) ==
    LET hits == {i \in 1..Len(s) : s[i] = unit}
    IN  IF hits = {} THEN -1 ELSE Max(hits) - 1

\* s.slice(start): a negative start counts from the end.
sliceFrom(s, start) ==
    LET from == IF start < 0 THEN Max({Len(s) + start, 0}) ELSE Min({start, Len(s)})
    IN  SubSeq(s, from + 1, Len(s))

\* s.includes(part)
includes(s, part) ==
    \E i \in 0..(Len(s) - Len(part)) : SubSeq(s, i + 1, i + Len(part)) = part

\* The keys of EXTENSION_MIME_MAP with their values.
EXTENSION_MIME_MAP ==
    { <<<<46, 112, 100, 102>>, "application/pdf">>,
      <<<<46, 100, 111, 99, 120>>,
        "application/vnd.openxmlformats-officedocument.wordprocessingml.document">>,
      <<<<46, 100, 111, 99>>, "application/msword">>,
      <<<<46, 120, 108, 115, 120>>,
        "application/vnd.openxmlformats-officedocument.spreadsheetml.sheet">>,
      <<<<46, 120, 108, 115>>, "application/vnd.ms-excel">>,
      <<<<46, 99, 115, 118>>, "text/csv">>,
      <<<<46, 116, 115, 118>>, "text/tab-separated-values">>,
      <<<<46, 112, 112, 116, 120>>,
        "application/vnd.openxmlformats-officedocument.presentationml.presentation">>,
      <<<<46, 112, 112, 116>>, "application/vnd.ms-powerpoint">>,
      <<<<46, 104, 116, 109, 108>>, "text/html">>,
      <<<<46, 104, 116, 109>>, "text/html">>,
      <<<<46, 112, 110, 103>>, "image/png">>,
      <<<<46, 106, 112, 103>>, "image/jpeg">>,
      <<<<46, 106, 112, 101, 103>>, "image/jpeg">>,
      <<<<46, 119, 101, 98, 112>>, "image/webp">>,
      <<<<46, 116, 105, 102, 102>>, "image/tiff">>,
      <<<<46, 103, 105, 102>>, "image/gif">>,
      <<<<46, 98, 109, 112>>, "image/bmp">> }

\* resolveMimeType.  file.type of a File is already in lower case (the File
\* constructor lowercases it), and it is a string, so the last ?? operand is
\* never taken.
resolveMimeType(file) ==
    LET browserType == file.type
    IN  IF browserType # "" /\ browserType # "application/octet-stream"
        THEN browserType
        ELSE LET ext == toLowerCase(sliceFrom(file.name, lastIndexOf(file.name, Dot)))
                 mapped == {pair \in EXTENSION_MIME_MAP : pair[1] = ext}
             IN  IF mapped # {} THEN (CHOOSE pair \in mapped : TRUE)[2]
                 ELSE browserType

\* String(n) of a natural number
RECURSIVE Decimal(_)
Decimal(n) ==
    IF n < 10 THEN <<48 + n>> ELSE Decimal(n \div 10) \o <<48 + (n % 10)>>

\* (size / 1024 / 1024).toFixed(1): the tenths nearest to the quotient, the
\* larger one when two are equally near.
toFixed1(size) ==
    LET tenths == (20 * size + 1024 * 1024) \div (2 * 1024 * 1024)
    IN  Decimal(tenths \div 10) \o <<Dot>> \o Decimal(tenths % 10)

\* A per-file result of the response.
Succeeded(document) == [success |-> TRUE, document |-> document]
Failed(fileName, error) == [success |-> FALSE, fileName |-> fileName, error |-> error]

NonFileField == <<40, 110, 111, 110, 45, 102, 105, 108, 101, 32, 102, 105, 101, 108, 100, 41>>
Unnamed == <<117, 110, 110, 97, 109, 101, 100>>
Unknown == <<117, 110, 107, 110, 111, 119, 110>>

\* entry.name || "unnamed"
FileNameOf(entry) == IF entry.name = << >> THEN Unnamed ELSE entry.name

\* The size validation with a limit that a file of exactly 50 MB reaches.
sizeValidation_AtLeast(entry, fileName) ==
    IF entry.size >= MAX_FILE_SIZE
    THEN [rejected |-> TRUE,
          value |-> Failed(fileName, <<"File exceeds the 50 MB limit (",
                                       toFixed1(entry.size), " MB).">>)]
    ELSE IF entry.size = 0
    THEN [rejected |-> TRUE, value |-> Failed(fileName, <<"File is empty.">>)]
    ELSE [rejected |-> FALSE, value |-> NoCall]

\* The size validation of a file: the result it returns, if it returns one.
sizeValidation(entry, fileName) ==
    IF entry.size > MAX_FILE_SIZE
    THEN [rejected |-> TRUE,
          value |-> Failed(fileName, <<"File exceeds the 50 MB limit (",
                                       toFixed1(entry.size), " MB).">>)]
    ELSE IF entry.size = 0
    THEN [rejected |-> TRUE, value |-> Failed(fileName, <<"File is empty.">>)]
    ELSE [rejected |-> FALSE, value |-> NoCall]

\* The part of a per-file task that runs inside files.map, up to its first await:
\* the task has its result already, or it waits for entry.arrayBuffer().
Task(pc, fileName, mimeType, extractor, raw, value) ==
    [pc |-> pc, fileName |-> fileName, mimeType |-> mimeType, extractor |-> extractor,
     raw |-> raw, value |-> value]

startTask(entry) ==
    IF ~entry.isFile
    THEN Task("fulfilled", NonFileField, "", "", NoDoc,
              Failed(NonFileField, <<"Expected a file upload, received a string field.">>))
    ELSE Let(FileNameOf(entry), LAMBDA fileName :
         Let(sizeValidation(entry, fileName), LAMBDA checked :
           IF checked.rejected
           THEN Task("fulfilled", fileName, "", "", NoDoc, checked.value)
           ELSE Task("reading", fileName, resolveMimeType(entry), "", NoDoc, NoCall)))

\* Promise.allSettled(promises): the outcomes in the order of the promises.
allSettled(promises) ==
    [i \in 1..Len(promises) |->
       [status |-> promises[i].pc, value |-> promises[i].value]]

\* The callback of settled.map
settle(outcome) ==
    IF outcome.status = "fulfilled" THEN outcome.value
    ELSE Failed(Unknown, outcome.reason)

\* The results with the failed files left out.
results_SuccessesOnly(settled) ==
    SelectSeq(Map(settled, settle), LAMBDA result : result.success)

\* const results = settled.map(...)
results(settled) == Map(settled, settle)

\* NextResponse.json(body, { status })
Response(status, body) == [called |-> TRUE, status |-> status, body |-> body]

MultipartFormData ==
    <<109, 117, 108, 116, 105, 112, 97, 114, 116, 47, 102, 111, 114, 109, 45, 100, 97, 116, 97>>

\* request.headers.get("content-type") ?? ""
NoHeader == [present |-> FALSE]
Header(value) == [present |-> TRUE, value |-> value]
contentTypeOf(req) == IF req.contentType.present THEN req.contentType.value ELSE << >>

(***************************************************************************)
(* Sample uploads.  A file's size is its size field; its buffer is what    *)
(* the parsing libraries make of its bytes.                                *)
(***************************************************************************)
File(name, type, size, buffer) ==
    [isFile |-> TRUE, name |-> name, type |-> type, size |-> size, buffer |-> buffer]

StringField == [isFile |-> FALSE]

\* A PDF of one page with little text.
BufPdfOnePage ==
    [kind |-> "pdf", pages |-> <<Page(<<TextItem(<<LetterA, LF, LF, LetterB, SP>>)>>)>>]

\* report.pdf of exactly 50 MB
FilePdf ==
    File(<<114, 101, 112, 111, 114, 116, 46, 112, 100, 102>>, "application/pdf",
         MAX_FILE_SIZE, BufPdfOnePage)
\* notes.TSV, sent without a type
FileTsv == File(<<110, 111, 116, 101, 115, 46, 84, 83, 86>>, "", 2048, BufCsv)
\* corrupt.pdf of one byte, sent as application/octet-stream
FileOneByte ==
    File(<<99, 111, 114, 114, 117, 112, 116, 46, 112, 100, 102>>,
         "application/octet-stream", 1, BufCorrupt)
\* report.pdf of one byte more than 50 MB
FileTooBig ==
    File(<<114, 101, 112, 111, 114, 116, 46, 112, 100, 102>>, "application/pdf",
         MAX_FILE_SIZE + 1, BufPdfOnePage)
\* a file without a name and without a byte
FileEmpty == File(<< >>, "", 0, BufCorrupt)
\* README, sent as application/octet-stream: no extractor supports it
FileUnsupported == File(<<82, 69, 65, 68, 77, 69>>, "application/octet-stream", 6, BufText)

SampleEntries ==
    {FilePdf, FileTsv, FileOneByte, FileTooBig, FileEmpty, FileUnsupported, StringField}

MaxFiles == 3

Batches == UNION { [1..n -> SampleEntries] : n \in 0..MaxFiles }

FormData(files) == [ok |-> TRUE, files |-> files]

Request(contentType, formData) ==
    [called |-> TRUE, contentType |-> contentType, formData |-> formData]

\* multipart/form-data; boundary=x
MultipartHeader ==
    Header(<<109, 117, 108, 116, 105, 112, 97, 114, 116, 47, 102, 111, 114, 109, 45, 100,
             97, 116, 97, 59, 32, 98, 111, 117, 110, 100, 97, 114, 121, 61, 120>>)

\* Headers that do not include multipart/form-data: none, application/json, and
\* Multipart/Form-Data; boundary=x.
OtherHeaders ==
    { NoHeader,
      Header(<<97, 112, 112, 108, 105, 99, 97, 116, 105, 111, 110, 47, 106, 115, 111, 110>>),
      Header(<<77, 117, 108, 116, 105, 112, 97, 114, 116, 47, 70, 111, 114, 109, 45, 68,
               97, 116, 97, 59, 32, 98, 111, 117, 110, 100, 97, 114, 121, 61, 120>>) }

\* The requests: every batch as multipart/form-data, one batch under each other
\* header, and a body that request.formData() cannot parse.
Requests ==
    { Request(MultipartHeader, FormData(files)) : files \in Batches }
      \cup { Request(header, FormData(<<FilePdf>>)) : header \in OtherHeaders }
      \cup { Request(MultipartHeader,
                     [ok |-> FALSE, error |-> <<"Failed to parse body as FormData.">>]) }

(***************************************************************************)
(* Spec: one POST request.  Post runs the handler up to                    *)
(* Promise.allSettled; the per-file tasks then advance in any order, each  *)
(* from await to await (entry.arrayBuffer(), extractor.extract(),          *)
(* router.process()); Respond runs when all tasks have settled.            *)
(* processCalls holds the router.process invocations made, each with the   *)
(* index of the file it was made for.                                      *)
(***************************************************************************)
Init ==
    /\ IdleText
    /\ IdleNorm
    /\ IdleRouter
    /\ IdleExtract
    /\ IdleLexer
    /\ IdleOcrClient
    /\ uuidCount = 0
    /\ request \in Requests
    /\ tasks = << >>
    /\ processCalls = {}
    /\ response = NoCall

Post ==
    /\ response = NoCall
    /\ tasks = << >>
    /\ IF ~includes(contentTypeOf(request), MultipartFormData)
       THEN /\ response' =
                 Response(415, [error |-> <<"Invalid content type. Expected multipart/form-data.">>])
            /\ tasks' = tasks
       ELSE IF ~request.formData.ok
       THEN /\ response' = Response(500, [error |-> request.formData.error])
            /\ tasks' = tasks
       ELSE IF Len(request.formData.files) = 0
       THEN /\ response' =
                 Response(400, [error |-> <<"No files provided. Upload files using the 'files' form field.">>])
            /\ tasks' = tasks
       ELSE /\ tasks' = Map(request.formData.files, startTask)
            /\ response' = response
    /\ UNCHANGED <<request, processCalls, uuidCount, textVars, normVars, routerVars, extractVars, lexVars, clientVars>>

\* entry.arrayBuffer() has resolved: router.process is invoked and runs up to
\* its await, through route and the call of extract.  A throw of route rejects
\* process; the task's catch makes the file's result of it.  An extract without an
\* await has returned its document by then, and process waits with it in hand;
\* any other extract is pending at its own first await.
TaskRead(i) ==
    /\ i <= Len(tasks)
    /\ tasks[i].pc = "reading"
    /\ processCalls' =
         processCalls \cup
           {[index |-> i, buffer |-> request.formData.files[i].buffer,
             fileName |-> tasks[i].fileName, mimeType |-> tasks[i].mimeType]}
    /\ Let(route(BuiltInExtractors, tasks[i].mimeType), LAMBDA extractor :
         IF ~extractor.ok
         THEN /\ tasks' = [tasks EXCEPT ![i].pc = "fulfilled",
                                        ![i].value = Failed(tasks[i].fileName, extractor.error)]
              /\ uuidCount' = uuidCount
         ELSE IF extractor.name \notin ExtractorsWithoutAwait
         THEN /\ tasks' = [tasks EXCEPT ![i].pc = "extracting", ![i].extractor = extractor.name]
              /\ uuidCount' = uuidCount
         ELSE Let(extract(extractor.name, request.formData.files[i].buffer,
                          tasks[i].fileName, uuidCount), LAMBDA raw :
                IF raw.ok
                THEN /\ tasks' = [tasks EXCEPT ![i].pc = "normalizing",
                                               ![i].extractor = extractor.name,
                                               ![i].raw = raw.doc]
                     /\ uuidCount' = uuidCount + 1
                ELSE /\ tasks' = [tasks EXCEPT ![i].pc = "fulfilled",
                                               ![i].extractor = extractor.name,
                                               ![i].value = Failed(tasks[i].fileName, raw.error)]
                     /\ uuidCount' = uuidCount))
    /\ UNCHANGED <<request, response, textVars, normVars, routerVars, extractVars, lexVars, clientVars>>

\* extractor.extract, pending since TaskRead, has settled.
TaskExtracted(i) ==
    /\ i <= Len(tasks)
    /\ tasks[i].pc = "extracting"
    /\ Let(extract(tasks[i].extractor, request.formData.files[i].buffer,
                   tasks[i].fileName, uuidCount), LAMBDA raw :
         IF raw.ok
         THEN /\ tasks' = [tasks EXCEPT ![i].pc = "normalizing", ![i].raw = raw.doc]
              /\ uuidCount' = uuidCount + 1
         ELSE /\ tasks' = [tasks EXCEPT ![i].pc = "fulfilled",
                                        ![i].value = Failed(tasks[i].fileName, raw.error)]
              /\ uuidCount' = uuidCount)
    /\ UNCHANGED <<request, processCalls, response, textVars, normVars, routerVars, extractVars, lexVars, clientVars>>

\* process goes on after its await: it normalizes and returns the document, and
\* the task returns the success.
TaskNormalized(i) ==
    /\ i <= Len(tasks)
    /\ tasks[i].pc = "normalizing"
    /\ tasks' =
         [tasks EXCEPT ![i].pc = "fulfilled",
                       ![i].value =
                          Succeeded(finishProcess(tasks[i].raw, tasks[i].mimeType,
                                                  uuidCount).doc)]
    /\ uuidCount' = uuidCount + UuidsOfNormalize(tasks[i].raw)
    /\ UNCHANGED <<request, processCalls, response, textVars, normVars, routerVars, extractVars, lexVars, clientVars>>

\* Promise.allSettled has resolved: the response with one result per task.
Respond ==
    /\ response = NoCall
    /\ tasks # << >>
    /\ \A i \in 1..Len(tasks) : tasks[i].pc = "fulfilled"
    /\ response' = Response(200, [results |-> results(allSettled(tasks))])
    /\ UNCHANGED <<request, tasks, processCalls, uuidCount, textVars, normVars, routerVars, extractVars, lexVars, clientVars>>

Next ==
    \/ Post
    \/ \E i \in 1..MaxFiles : TaskRead(i)
    \/ \E i \in 1..MaxFiles : TaskExtracted(i)
    \/ \E i \in 1..MaxFiles : TaskNormalized(i)
    \/ Respond

Spec == Init /\ [][Next]_vars

\* The result of a file uploaded by itself: the validation, then process as one
\* call on a router nobody else uses.
Alone(entry) ==
    IF ~entry.isFile
    THEN Failed(NonFileField, <<"Expected a file upload, received a string field.">>)
    ELSE Let(FileNameOf(entry), LAMBDA fileName :
         Let(sizeValidation(entry, fileName), LAMBDA checked :
           IF checked.rejected THEN checked.value
           ELSE Let(process(BuiltInExtractors, entry.buffer, fileName,
                            resolveMimeType(entry), 0), LAMBDA document :
                  IF document.ok THEN Succeeded(document.doc)
                  ELSE Failed(fileName, document.error))))

\* A result without its identifiers, which are random.
WithoutIds(result) ==
    IF ~result.success THEN result
    ELSE Succeeded([result.document EXCEPT
                      !.documentId = << >>,
                      !.chunks = Map(result.document.chunks,
                                     LAMBDA chunk : [chunk EXCEPT !.id = << >>])])

\* The identifiers of a result: of the document, then of its chunks.
IdsOf(result) ==
    IF ~result.success THEN << >>
    ELSE <<result.document.documentId>>
            \o Map(result.document.chunks, LAMBDA chunk : chunk.id)

RECURSIVE Concat(_)
Concat(seqs) == IF Len(seqs) = 0 THEN << >> ELSE seqs[1] \o Concat(Tail(seqs))

\* C3: the response to a batch of n files has n results, the i-th the result of the
\* i-th file: whatever the order the tasks ran in, it is, identifiers aside, the
\* result the file has when uploaded by itself, so a file that fails has a
\* success:false entry and changes no other entry; no identifier is missing or
\* used twice in the response.
C3_BatchIsolation ==
    (response.called /\ response.status = 200) =>
        LET files == request.formData.files
            answered == response.body.results
            ids == Concat(Map(answered, IdsOf))
        IN  /\ DOMAIN response.body = {"results"}
            /\ Len(answered) = Len(files)
            /\ \A i \in 1..Len(files) :
                 WithoutIds(answered[i]) = WithoutIds(Alone(files[i]))
            /\ \A j \in 1..Len(ids) : ids[j] # << >>
            /\ \A j, k \in 1..Len(ids) : ids[j] = ids[k] => j = k

\* C3 witness: three files, the second of which failed in extraction; the first and
\* the third succeeded, the third's extraction settled before the first's.
C3_Witness ==
    /\ response.called
    /\ response.status = 200
    /\ Len(response.body.results) = 3
    /\ request.formData.files[2] = FileOneByte
    /\ response.body.results[1].success
    /\ ~response.body.results[2].success
    /\ response.body.results[2].error = <<"Invalid PDF structure.">>
    /\ response.body.results[3].success
    /\ response.body.results[3].document.documentId[1]
         < response.body.results[1].document.documentId[1]

IsSizeError(result) ==
    /\ ~result.success
    /\ result.error \in { <<"File is empty.">>,
                          <<"File exceeds the 50 MB limit (", <<53, 48, 46, 48>>, " MB).">> }

\* C4: a file above 50 MB and a file of zero bytes have their success:false result
\* when files.map returns, and router.process is never called for them; a file of
\* exactly 50 MB and a file of one byte wait for their bytes or have been passed to
\* router.process, once, and no result of theirs is a size error.
C4_SizeLimits ==
    \A i \in 1..Len(tasks) :
        LET entry == request.formData.files[i]
            calls == {call \in processCalls : call.index = i}
        IN  entry.isFile =>
              /\ (entry.size > MAX_FILE_SIZE \/ entry.size = 0) =>
                   /\ tasks[i].pc = "fulfilled"
                   /\ IsSizeError(tasks[i].value)
                   /\ tasks[i].value.fileName = FileNameOf(entry)
                   /\ calls = {}
              /\ (entry.size = MAX_FILE_SIZE \/ entry.size = 1) =>
                   /\ tasks[i].pc = "reading" <=> calls = {}
                   /\ Cardinality(calls) <= 1
                   /\ \A call \in calls : call.buffer = entry.buffer
                   /\ tasks[i].pc = "fulfilled" => ~IsSizeError(tasks[i].value)

\* C4 witness: a batch of a file of 50 MB and one byte, a file of exactly 50 MB, and
\* a file of no byte has been answered; router.process was called for the second
\* only, which succeeded.
C4_Witness ==
    /\ response.called
    /\ response.status = 200
    /\ request.formData.files = <<FileTooBig, FilePdf, FileEmpty>>
    /\ {call.index : call \in processCalls} = {2}
    /\ response.body.results[2].success
    /\ response.body.results[1].error
         = <<"File exceeds the 50 MB limit (", <<53, 48, 46, 48>>, " MB).">>
    /\ response.body.results[3] = Failed(Unnamed, <<"File is empty.">>)

(***************************************************************************)
(* ocr-provider.ts: the content-stream lexer of the pdf-lib extractor.     *)
(* SpecLexer hands content to readLiteralString, readHexString,            *)
(* readTextArray and extractStrings.                                       *)
(***************************************************************************)
Digit(d) == Zero + d
UpperA == UpperJ - 9
LetterD == LetterF - 2
LetterX == LetterT + 4

\* Every sequence of at most `max` members of `set`.
SeqsUpTo(set, max) == UNION {[1..n -> set] : n \in 0..max}

\* The body of a literal string: at most one plain character or parenthesis, an
\* escape sequence or none, then at most MaxPieces further pieces.
PlainPieces == {<<LetterA>>, <<LParen>>, <<RParen>>}
EscapePieces ==
    {<<Backslash, c>> : c \in {LetterN, LetterR, LetterT, LetterB, LetterF, LParen,
                                RParen, Backslash, LetterX, LF, CR}}
    \cup {<<Backslash, Digit(1)>>, <<Backslash, Digit(1), Digit(0)>>,
          <<Backslash, Digit(1), Digit(0), Digit(1)>>,
          <<Backslash, Digit(7), Digit(7), Digit(7)>>}
FurtherPieces ==
    {<<LetterA>>, <<Digit(1)>>, <<Digit(8)>>, <<LF>>, <<LParen>>, <<RParen>>, <<Backslash>>,
     <<Backslash, LetterN>>, <<Backslash, Digit(1), Digit(0), Digit(1)>>}
MaxPieces == 2
LiteralInputs ==
    {<<LParen>> \o Concat(first) \o escape \o Concat(further) :
        first \in SeqsUpTo(PlainPieces, 1), escape \in EscapePieces \cup {<< >>},
        further \in SeqsUpTo(FurtherPieces, MaxPieces)}

\* (\101\102\103)   (\n)   (a \( b \) c)
LiteralABC ==
    <<LParen, Backslash, Digit(1), Digit(0), Digit(1), Backslash, Digit(1), Digit(0), Digit(2),
      Backslash, Digit(1), Digit(0), Digit(3), RParen>>
LiteralNewline == <<LParen, Backslash, LetterN, RParen>>
LiteralEscapedParens ==
    <<LParen, LetterA, SP, Backslash, LParen, SP, LetterB, SP, Backslash, RParen, SP,
      LetterB + 1, RParen>>

\* Characters of the body of a hex string.
HexAlphabet == {Digit(4), UpperA + 2, LetterF, SP, LF, RAngle, LetterX}
MaxHex == 5
HexInputs == {<<LAngle>> \o body : body \in SeqsUpTo(HexAlphabet, MaxHex)}

\* <48656C6C6F>   <48656C6C6>   <48656C6C60>
HexHello ==
    <<LAngle, Digit(4), Digit(8), Digit(6), Digit(5), Digit(6), UpperA + 2, Digit(6), UpperA + 2,
      Digit(6), UpperA + 5, RAngle>>
HexOdd == SubSeq(HexHello, 1, Len(HexHello) - 2) \o <<RAngle>>
HexOddPadded == SubSeq(HexHello, 1, Len(HexHello) - 2) \o <<Zero, RAngle>>

\* Tokens of a content stream.
StringA == <<LParen, LetterA, RParen>>
StringB == <<LParen, LetterB, RParen>>
HexC == <<LAngle, Digit(6), Digit(3), RAngle>>
Kerning == <<Dash, Digit(2), Zero>>
OperatorTj == <<UpperT, LetterJ>>
OperatorTJ == <<UpperT, UpperJ>>
OperatorTd == <<UpperT, LetterD>>

\* The items of a text array and what may follow the array.
ArrayPieces == {StringA, StringB, HexC, Kerning, <<SP>>, OperatorTj, <<LAngle, LAngle>>}
MaxItems == 3
ArraySuffixes ==
    {<< >>, <<RBracket>>, <<RBracket>> \o OperatorTJ, <<RBracket, SP>> \o OperatorTJ,
     <<RBracket>> \o OperatorTj, <<RBracket, Quote>>, <<RBracket, SP>> \o OperatorTd,
     <<RBracket, Digit(1), SP>> \o OperatorTJ}
ArrayInputs ==
    {<<LBracket>> \o Concat(pieces) \o suffix :
        pieces \in SeqsUpTo(ArrayPieces, MaxItems), suffix \in ArraySuffixes}

\* [(Hel) -20 (lo)] TJ
LetterL == LetterN - 2
ArrayHello ==
    <<LBracket, LParen, UpperJ - 2, LetterF - 1, LetterL, RParen, SP>> \o Kerning
        \o <<SP, LParen, LetterL, LetterN + 1, RParen, RBracket, SP>> \o OperatorTJ
Hello == <<UpperJ - 2, LetterF - 1, LetterL, LetterL, LetterN + 1>>

StreamTokens ==
    {StringA, HexC, <<LBracket>> \o StringA \o Kerning \o StringB \o <<RBracket>>,
     <<LBracket>> \o Kerning \o <<RBracket>>, OperatorTj, OperatorTJ, OperatorTd,
     <<Quote>>, <<DQuote>>, <<SP>>}
MaxTokens == 4
StreamInputs == {Concat(tokens) : tokens \in SeqsUpTo(StreamTokens, MaxTokens)}

\* (\376\377A) Tj with the bytes written raw: the UTF-16BE byte order mark and one
\* more byte.
LiteralOddUtf16 == <<LParen, 254, 255, UpperA, RParen, SP>> \o OperatorTj

LexerSamples ==
    {LiteralABC, LiteralNewline, LiteralEscapedParens, HexHello, HexOdd, HexOddPadded,
     ArrayHello, LiteralOddUtf16}

InitLexer ==
    /\ \/ lexInput \in LiteralInputs
       \/ lexInput \in HexInputs
       \/ lexInput \in ArrayInputs
       \/ lexInput \in StreamInputs
       \/ lexInput \in LexerSamples
    /\ lexed = NoCall
    /\ uuidCount = 0
    /\ IdleText
    /\ IdleNorm
    /\ IdleRouter
    /\ IdleExtract
    /\ IdlePost
    /\ IdleOcrClient

\* readLiteralString(content, 0) on content that opens a literal string.
ReadLiteralString ==
    /\ ~lexed.called
    /\ CharAt(lexInput, 0) = LParen
    /\ lexed' = [called |-> TRUE, method |-> "readLiteralString",
                 bytes |-> ReadLiteralFrom(lexInput, 1, 1, << >>).bytes,
                 result |-> readLiteralString(lexInput, 0)]
    /\ UNCHANGED <<lexInput, uuidCount, textVars, normVars, routerVars, extractVars, postVars,
                   clientVars>>

\* readHexString(content, 0) on content that opens a hex string.
ReadHexString ==
    /\ ~lexed.called
    /\ CharAt(lexInput, 0) = LAngle /\ CharAt(lexInput, 1) # LAngle
    /\ lexed' = [called |-> TRUE, method |-> "readHexString",
                 bytes |-> HexBytes(ReadHexFrom(lexInput, 1, << >>).hex),
                 result |-> readHexString(lexInput, 0)]
    /\ UNCHANGED <<lexInput, uuidCount, textVars, normVars, routerVars, extractVars, postVars,
                   clientVars>>

\* readTextArray(content, 0) on content that opens an array, then readOperator.
ReadTextArray ==
    /\ ~lexed.called
    /\ CharAt(lexInput, 0) = LBracket
    /\ lexed' = Let(readTextArray(lexInput, 0), LAMBDA arrayContents :
                    [called |-> TRUE, method |-> "readTextArray", result |-> arrayContents,
                     operator |-> IF arrayContents.ok
                                  THEN readOperator(lexInput, arrayContents.nextIndex)
                                  ELSE [name |-> NoName, nextIndex |-> Len(lexInput)]])
    /\ UNCHANGED <<lexInput, uuidCount, textVars, normVars, routerVars, extractVars, postVars,
                   clientVars>>

\* extractStrings(content).
ExtractStrings ==
    /\ ~lexed.called
    /\ lexed' = [called |-> TRUE, method |-> "extractStrings",
                 result |-> extractStrings(lexInput)]
    /\ UNCHANGED <<lexInput, uuidCount, textVars, normVars, routerVars, extractVars, postVars,
                   clientVars>>

NextLexer == ReadLiteralString \/ ReadHexString \/ ReadTextArray \/ ExtractStrings

SpecLexer == InitLexer /\ [][NextLexer]_vars

\* The escape table of a literal string: for content whose 1-based position p holds
\* a backslash that is followed by a character, the bytes the escape sequence
\* stands for and the number of characters it takes, backslash included.
OctalRun(content, p) ==
    IF p + 3 <= Len(content) /\ content[p + 2] \in OctalDigits /\ content[p + 3] \in OctalDigits
    THEN 3
    ELSE IF p + 2 <= Len(content) /\ content[p + 2] \in OctalDigits THEN 2 ELSE 1

OctalValue(content, p, n) ==
    IF n = 1 THEN content[p + 1] - Zero
    ELSE IF n = 2 THEN (content[p + 1] - Zero) * 8 + (content[p + 2] - Zero)
    ELSE (content[p + 1] - Zero) * 64 + (content[p + 2] - Zero) * 8 + (content[p + 3] - Zero)

EscapeTable(content, p) ==
    LET next == content[p + 1]
    IN  IF next \in OctalDigits
        THEN [bytes |-> <<OctalValue(content, p, OctalRun(content, p))>>,
              length |-> 1 + OctalRun(content, p)]
        ELSE IF next = LetterN THEN [bytes |-> <<LF>>, length |-> 2]
        ELSE IF next = LetterR THEN [bytes |-> <<CR>>, length |-> 2]
        ELSE IF next = LetterT THEN [bytes |-> <<TAB>>, length |-> 2]
        ELSE IF next = LetterB THEN [bytes |-> <<BS>>, length |-> 2]
        ELSE IF next = LetterF THEN [bytes |-> <<FF>>, length |-> 2]
        ELSE IF next = LF THEN [bytes |-> << >>, length |-> 2]
        ELSE IF next = CR
        THEN [bytes |-> << >>,
              length |-> IF p + 2 <= Len(content) /\ content[p + 2] = LF THEN 3 ELSE 2]
        ELSE [bytes |-> <<next>>, length |-> 2]

\* The first backslash of a literal string's body is the start of an escape
\* sequence when no parenthesis comes before it and a character follows it.
FirstBackslash(content) == Min({p \in 1..Len(content) : content[p] = Backslash})

StartsWithEscape(content) ==
    /\ \E p \in 1..(Len(content) - 1) : content[p] = Backslash
    /\ FirstBackslash(content) < Len(content)
    /\ \A q \in 2..(FirstBackslash(content) - 1) : content[q] \notin {LParen, RParen}

\* C13: inside a literal string every escape sequence contributes the bytes of the
\* escape table: \n, \r, \t, \b, \f give their control code; \(, \) and \\ give the
\* character; an octal escape of 1 to 3 digits gives one byte of that value (the
\* Buffer keeps its low 8 bits) and takes no more than 3 digits; a backslash before
\* LF, CR or CR LF gives nothing; any other escaped character gives its own code.
\* The bytes read are the plain characters before the escape, the bytes of the
\* table, and the bytes read from what follows the escape sequence.
\* (\101\102\103) is ABC, (\n) is a newline, (a \( b \) c) is a ( b ) c.
C13_EscapeTable ==
    (lexed.called /\ lexed.method = "readLiteralString") =>
        /\ StartsWithEscape(lexInput) =>
              LET p == FirstBackslash(lexInput)
                  escape == EscapeTable(lexInput, p)
                  rest == <<LParen>> \o SubSeq(lexInput, p + escape.length, Len(lexInput))
                  after == ReadLiteralFrom(rest, 1, 1, << >>)
              IN  /\ Len(escape.bytes) <= 1
                  /\ escape.length <= 4
                  /\ lexed.bytes = SubSeq(lexInput, 2, p - 1) \o escape.bytes \o after.bytes
                  /\ lexed.result.ok =>
                        lexed.result.nextIndex = (p - 1) + escape.length + (after.nextIndex - 1)
        /\ lexInput = LiteralABC =>
              /\ lexed.bytes = <<UpperA, UpperA + 1, UpperA + 2>>
              /\ lexed.result = [ok |-> TRUE, text |-> <<UpperA, UpperA + 1, UpperA + 2>>,
                                 nextIndex |-> Len(LiteralABC)]
        /\ lexInput = LiteralNewline => lexed.result.ok /\ lexed.result.text = <<LF>>
        /\ lexInput = LiteralEscapedParens =>
              /\ lexed.result.ok
              /\ lexed.result.text
                    = <<LetterA, SP, LParen, SP, LetterB, SP, RParen, SP, LetterB + 1>>

\* A four-digit run after a backslash was read: three digits made one byte and
\* the fourth stayed a character of the string.
C13_Witness ==
    /\ lexed.called /\ lexed.method = "readLiteralString"
    /\ lexInput = <<LParen, Backslash, Digit(1), Digit(0), Digit(1), Digit(1), RParen>>
    /\ lexed.bytes = <<UpperA, Digit(1)>>
    /\ lexed.result.ok /\ lexed.result.text = <<UpperA, Digit(1)>>

\* The value of one hex digit, and the body of a hex string: what stands between
\* the opening < and the first > (or the end of the content).
Nibble(c) ==
    IF c \in Zero..(Zero + 9) THEN c - Zero
    ELSE IF c \in UpperA..(UpperA + 5) THEN c - UpperA + 10
    ELSE c - LetterA + 10

HexClose(content) ==
    IF \E p \in 2..Len(content) : content[p] = RAngle
    THEN Min({p \in 2..Len(content) : content[p] = RAngle})
    ELSE Len(content) + 1

HexDigitsOf(content) ==
    SelectSeq(SubSeq(content, 2, HexClose(content) - 1), LAMBDA c : c \notin JsWhiteSpace)

PairedBytes(digits) ==
    [k \in 1..((Len(digits) + 1) \div 2) |->
        Nibble(digits[2 * k - 1]) * 16
            + (IF 2 * k <= Len(digits) THEN Nibble(digits[2 * k]) ELSE 0)]

\* C14: a hex string <...> decodes to the bytes given by its hex digits taken in
\* pairs; whitespace between the digits is ignored and an odd number of digits is
\* padded with one trailing zero nibble.  <48656C6C6F> is Hello and <48656C6C6>
\* decodes as <48656C6C60>.
C14_HexString ==
    (lexed.called /\ lexed.method = "readHexString") =>
        /\ (\A k \in 1..Len(HexDigitsOf(lexInput)) : HexDigitsOf(lexInput)[k] \in HexDigits) =>
              /\ lexed.bytes = PairedBytes(HexDigitsOf(lexInput))
              /\ lexed.result.ok =>
                    lexed.result.nextIndex = Min({HexClose(lexInput), Len(lexInput)})
        /\ lexInput = HexHello => lexed.result.ok /\ lexed.result.text = Hello
        /\ lexInput = HexOdd =>
              /\ lexed.bytes = <<72, 101, 108, 108, 96>>
              /\ lexed.result.ok
              /\ lexed.result.text = readHexString(HexOddPadded, 0).text

\* Three digits with whitespace between them were read as two bytes, the last one
\* padded: <4 fC> is 0x4F 0xC0.
C14_Witness ==
    /\ lexed.called /\ lexed.method = "readHexString"
    /\ lexInput = <<LAngle, Digit(4), SP, LetterF, UpperA + 2, RAngle>>
    /\ lexed.bytes = <<79, 192>>
    /\ lexed.result.ok /\ lexed.result.text = <<79, 192>>

\* What follows the first n characters of content.
DropFirst(content, n) == SubSeq(content, n + 1, Len(content))

\* The items readTextArray gives for content that opens an array, split at the
\* start of the array's body: a nested literal or hex string gives its text as
\* the first item, followed by the items of what follows the string; any other
\* character gives nothing; the closing bracket or the end of the content ends
\* the items.
ItemsInEncounterOrder(content, items) ==
    IF Len(content) = 1 \/ CharAt(content, 1) = RBracket THEN items = << >>
    ELSE IF CharAt(content, 1) = LParen
    THEN Let(readLiteralString(content, 1), LAMBDA literal :
             items = <<literal.text>>
                        \o readTextArray(<<LBracket>> \o DropFirst(content, literal.nextIndex),
                                         0).items)
    ELSE IF CharAt(content, 1) = LAngle /\ CharAt(content, 2) # LAngle
    THEN Let(readHexString(content, 1), LAMBDA hex :
             items = <<hex.text>>
                        \o readTextArray(<<LBracket>> \o DropFirst(content, hex.nextIndex),
                                         0).items)
    ELSE items = readTextArray(<<LBracket>> \o DropFirst(content, 2), 0).items

\* C15: a text array followed by TJ is recovered as the concatenation, in encounter
\* order, of its nested literal and hex strings only; kerning numbers and other
\* content between the strings contribute nothing.  [(Hel) -20 (lo)] TJ is Hello.
C15_TextArray ==
    /\ (lexed.called /\ lexed.method = "readTextArray" /\ lexed.result.ok) =>
          /\ ItemsInEncounterOrder(lexInput, lexed.result.items)
          /\ lexInput = ArrayHello =>
                /\ lexed.result.items = <<SubSeq(Hello, 1, 3), SubSeq(Hello, 4, 5)>>
                /\ lexed.operator.name = OperatorTJ
    /\ (lexed.called /\ lexed.method = "extractStrings" /\ lexed.result.ok
            /\ CharAt(lexInput, 0) = LBracket) =>
          /\ Let(readTextArray(lexInput, 0), LAMBDA arrayContents :
                 (/\ arrayContents.items # << >>
                  /\ readOperator(lexInput, arrayContents.nextIndex).name = OperatorTJ)
                     => /\ lexed.result.results # << >>
                        /\ lexed.result.results[1] = Concat(arrayContents.items))
          /\ lexInput = ArrayHello => lexed.result.results = <<Hello>>

\* [(a)-20<63>] TJ was lexed: a kerning number between a literal and a hex string.
C15_Witness ==
    /\ lexed.called /\ lexed.method = "extractStrings"
    /\ lexInput = <<LBracket>> \o StringA \o Kerning \o HexC \o <<RBracket, SP>> \o OperatorTJ
    /\ lexed.result.ok
    /\ lexed.result.results = <<<<LetterA, LetterB + 1>>>>

\* The texts emitted for one token: the text when the rule lets it through.
Emitted(emit, text) == IF emit THEN <<text>> ELSE << >>

SimpleTextOperators == {OperatorTj, <<Quote>>, <<DQuote>>}

\* The texts extractStrings gives for content, split at its first token: what the
\* token at the start of the content gives, by the operator name read right after
\* it, followed by the results for what follows that operator, in this order.
\* arrayRule(items, name) says when an array is emitted.
EmitsByOperator(content, texts, arrayRule(_, _)) ==
    IF content = << >> THEN texts = << >>
    ELSE IF content[1] = LParen
    THEN Let(readLiteralString(content, 0), LAMBDA literal :
         Let(readOperator(content, literal.nextIndex), LAMBDA operator :
             texts = Emitted(operator.name \in SimpleTextOperators, literal.text)
                           \o extractStrings(DropFirst(content, operator.nextIndex)).results))
    ELSE IF content[1] = LAngle /\ CharAt(content, 1) # LAngle
    THEN Let(readHexString(content, 0), LAMBDA hex :
         Let(readOperator(content, hex.nextIndex), LAMBDA operator :
             texts = Emitted(operator.name \in SimpleTextOperators, hex.text)
                           \o extractStrings(DropFirst(content, operator.nextIndex)).results))
    ELSE IF content[1] = LBracket
    THEN Let(readTextArray(content, 0), LAMBDA arrayContents :
         Let(readOperator(content, arrayContents.nextIndex), LAMBDA operator :
             texts = Emitted(arrayRule(arrayContents.items, operator.name),
                               Concat(arrayContents.items))
                           \o extractStrings(DropFirst(content, operator.nextIndex)).results))
    ELSE texts = extractStrings(DropFirst(content, 1)).results

\* C16 as stated: extractStrings emits a literal or hex string if and only if the
\* operator name read right after it is Tj, ' or ", and emits a text array (its
\* item strings concatenated) if and only if the operator read right after it is
\* TJ; emitted texts appear in stream order.
C16_EmittedIffOperator ==
    (lexed.called /\ lexed.method = "extractStrings" /\ lexed.result.ok) =>
        EmitsByOperator(lexInput, lexed.result.results,
                        LAMBDA items, name : name = OperatorTJ)

\* C16 amended: extractStrings emits a literal or hex string if and only if the
\* operator name read right after it is Tj, ' or ", and emits a text array (its
\* item strings concatenated) if and only if the operator read right after it is
\* TJ and the array holds at least one string; a string or array followed by any
\* other operator, by no operator or by the end of input is never emitted, and
\* emitted texts appear in stream order.
C16_EmittedIffOperatorAndItems ==
    (lexed.called /\ lexed.method = "extractStrings" /\ lexed.result.ok) =>
        EmitsByOperator(lexInput, lexed.result.results,
                        LAMBDA items, name : name = OperatorTJ /\ items # << >>)

\* [-20]TJ(a)' was lexed: the array of no string is followed by TJ and not
\* emitted, the string before ' is emitted.
C16_Witness ==
    /\ lexed.called /\ lexed.method = "extractStrings"
    /\ lexInput = <<LBracket>> \o Kerning \o <<RBracket>> \o OperatorTJ \o StringA \o <<Quote>>
    /\ lexed.result.ok
    /\ lexed.result.results = <<<<LetterA>>>>

\* The number of backslashes that stand right before position p of a literal
\* string's body.  A backslash escapes the character after it unless it is escaped
\* itself, so the character at p is escaped when that number is odd.
BackslashesBefore(content, p) ==
    Cardinality({q \in 2..(p - 1) : \A r \in q..(p - 1) : content[r] = Backslash})

EscapedAt(content, p) == BackslashesBefore(content, p) % 2 = 1

UnescapedUpTo(content, p, paren) ==
    {q \in 2..p : content[q] = paren /\ ~EscapedAt(content, q)}

\* The nesting depth after the character at position p: 1 for the opening
\* parenthesis, one more for every unescaped ( and one less for every unescaped ).
DepthAt(content, p) ==
    1 + Cardinality(UnescapedUpTo(content, p, LParen))
      - Cardinality(UnescapedUpTo(content, p, RParen))

\* The positions of the unescaped ) that bring the depth to 0; the first one
\* matches the opening parenthesis.
ClosingPositions(content) ==
    {p \in 2..Len(content) :
        content[p] = RParen /\ ~EscapedAt(content, p) /\ DepthAt(content, p) = 0}

\* The position after the body of the string: the matching ) or, for an
\* unterminated string, the position after the end of the content.
BodyEnd(content) ==
    IF ClosingPositions(content) = {} THEN Len(content) + 1
    ELSE Min(ClosingPositions(content))

NoOctalEscape(content) ==
    \A p \in 2..(Len(content) - 1) :
        content[p] = Backslash => content[p + 1] \notin OctalDigits

CountOf(units, unit) == Cardinality({k \in 1..Len(units) : units[k] = unit})

\* C21: readLiteralString ends a literal string at the unescaped ) that matches its
\* opening (: the depth starts at 1, unescaped ( and ) raise and lower it, escaped
\* parentheses leave it unchanged and it never goes below 0; the returned cursor is
\* the position just after the closing ), or the end of input when the string is
\* unterminated; nested unescaped parentheses are part of the bytes read while the
\* outermost pair is not (with no backslash the bytes are exactly the characters
\* between the outermost pair, and every parenthesis between the pair, escaped or
\* nested, is among the bytes).
C21_BalancedParentheses ==
    (lexed.called /\ lexed.method = "readLiteralString") =>
        LET end == BodyEnd(lexInput)
            body == SubSeq(lexInput, 2, end - 1)
        IN  /\ lexed.result.ok =>
                  /\ lexed.result.nextIndex = Min({end, Len(lexInput)})
                  /\ \A p \in 2..lexed.result.nextIndex : DepthAt(lexInput, p) >= 0
                  /\ \A p \in 2..(lexed.result.nextIndex - 1) :
                        lexInput[p] = Backslash \/ DepthAt(lexInput, p) >= 1
            /\ (\A p \in 1..Len(body) : body[p] # Backslash) => lexed.bytes = body
            /\ NoOctalEscape(lexInput) =>
                  /\ CountOf(lexed.bytes, LParen) = CountOf(body, LParen)
                  /\ CountOf(lexed.bytes, RParen) = CountOf(body, RParen)

\* ((\))) was read: a nested parenthesis, an escaped one, the nested closing one
\* and the matching one; the text is ()) and the cursor is after the sixth character.
C21_Witness ==
    /\ lexed.called /\ lexed.method = "readLiteralString"
    /\ lexInput = <<LParen, LParen, Backslash, RParen, RParen, RParen>>
    /\ lexed.result = [ok |-> TRUE, text |-> <<LParen, RParen, RParen>>, nextIndex |-> 6]

\* The cursor a reader returns is past its start and not past the end of input,
\* and readOperator does not move it backwards.
CursorAdvances ==
    (lexed.called /\ lexed.result.ok) =>
        /\ lexed.method # "extractStrings" => lexed.result.nextIndex \in 1..Len(lexInput)
        /\ lexed.method = "readTextArray" =>
              lexed.operator.nextIndex \in lexed.result.nextIndex..Len(lexInput)

\* C29: the content-stream lexer terminates on every input: the cursor of
\* readLiteralString, readHexString, readTextArray and readOperator never moves
\* backwards and ends within the input, and the scan of extractStrings and of the
\* readers ends without an exception, unterminated strings, unterminated arrays
\* and a trailing backslash included.
C29_LexerEndsWithoutException ==
    lexed.called => (lexed.result.ok /\ CursorAdvances)

\* A string or array token opens at this index.
OpensToken(content, index) ==
    \/ CharAt(content, index) = LParen
    \/ CharAt(content, index) = LBracket
    \/ (CharAt(content, index) = LAngle /\ CharAt(content, index + 1) # LAngle)

\* The index after the token that opens the content.
FirstTokenEnd(content) ==
    IF CharAt(content, 0) = LParen THEN readLiteralString(content, 0).nextIndex
    ELSE IF CharAt(content, 0) = LBracket THEN readTextArray(content, 0).nextIndex
    ELSE readHexString(content, 0).nextIndex

\* C30: reading the operator after a string or array token does not consume the
\* opening delimiter of the next token: when the token at the start of the content
\* is followed (after white space) by another string or array token, the first is
\* not emitted and the results are those of the content from the second token on,
\* so the second token is emitted when the operator after it shows text.
C30_NextTokenNotConsumed ==
    (/\ lexed.called /\ lexed.method = "extractStrings" /\ lexed.result.ok
     /\ Len(lexInput) > 0 /\ OpensToken(lexInput, 0)) =>
        Let(RunEndAt(lexInput, FirstTokenEnd(lexInput), JsWhiteSpace), LAMBDA second :
            (second < Len(lexInput) /\ OpensToken(lexInput, second)) =>
                lexed.result.results = extractStrings(DropFirst(lexInput, second)).results)

(***************************************************************************)
(* pdf-ocr-client.ts: ocrPdfPages, the client-side OCR of the pages the    *)
(* server flagged.  SpecOcrClient follows one call from await to await.    *)
(***************************************************************************)
\* What happens to one page of ocrPages inside the inner try of the page loop.
PageOutcomes ==
    {[kind |-> "text", text |-> <<SP, LetterA, LF>>],
     [kind |-> "blank", text |-> <<SP, LF>>],
     [kind |-> "getPageRejects", text |-> << >>],
     [kind |-> "noContext", text |-> << >>],
     [kind |-> "renderRejects", text |-> << >>],
     [kind |-> "noBlob", text |-> << >>],
     [kind |-> "recognizeRejects", text |-> << >>]}

\* The onProgress calls, by their status; the callback throws at none or at one.
ProgressCalls == {"loading", "initializing", "rendering", "scanning", "complete"}

MaxOcrPages == 2

NoError == << >>
ProgressError == <<"onProgress threw">>
TerminateError == <<"worker.terminate rejected">>

\* { type: "paragraph", text: trimmedText, page: pageNum, ocrSource: "client-ocr" }
OcrChunk(text, pageNum) ==
    [type |-> "paragraph", text |-> text, page |-> pageNum, ocrSource |-> "client-ocr"]

\* How the call settles.
Returned(chunks) == [called |-> TRUE, ok |-> TRUE, chunks |-> chunks]
Rejected(error) == [called |-> TRUE, ok |-> FALSE, error |-> error]

\* The finally block with a rejection of worker.terminate() surfaced to the caller.
finallyBlock_Surfacing(run, terminateThrows) ==
    IF run.worker = "live"
    THEN [run EXCEPT !.pc = "settle", !.worker = "terminated", !.terminated = @ + 1,
                     !.pending = IF terminateThrows THEN TerminateError ELSE @]
    ELSE [run EXCEPT !.pc = "settle"]

\* The finally block: if (worker) { try { await worker.terminate() } catch {} }
finallyBlock(run, terminateThrows) ==
    IF run.worker = "live"
    THEN [run EXCEPT !.pc = "settle", !.worker = "terminated", !.terminated = @ + 1]
    ELSE [run EXCEPT !.pc = "settle"]

\* The locals of a call that leaves the outer try with `error` thrown.
leaveTry(run, error) == [run EXCEPT !.pc = "finally", !.pending = error]

\* The locals of a call that goes on to the next page.
nextPage(run) == [run EXCEPT !.pc = "render", !.i = @ + 1]

InitOcrClient ==
    /\ uuidCount = 0
    /\ IdleText
    /\ IdleNorm
    /\ IdleRouter
    /\ IdleExtract
    /\ IdlePost
    /\ IdleLexer
    /\ \E pages \in SeqsUpTo(PageOutcomes, MaxOcrPages), pdfLoads \in BOOLEAN,
          workerCreates \in BOOLEAN, terminateThrows \in BOOLEAN,
          progressThrows \in ProgressCalls \cup {"never"} :
         ocrCall = [called |-> TRUE, ocrPages |-> [k \in 1..Len(pages) |-> k],
                    pages |-> pages, pdfLoads |-> pdfLoads, workerCreates |-> workerCreates,
                    terminateThrows |-> terminateThrows, progressThrows |-> progressThrows]
    /\ ocrRun = [called |-> TRUE, pc |-> "start", i |-> 0, chunks |-> << >>,
                 worker |-> "null", created |-> 0, terminated |-> 0, pending |-> NoError,
                 outcome |-> NoCall]

\* Entry: the empty list returns at once; otherwise onProgress("Loading PDF...").
OcrStart ==
    /\ ocrRun.pc = "start"
    /\ ocrRun' =
         IF Len(ocrCall.ocrPages) = 0
         THEN [ocrRun EXCEPT !.pc = "done", !.outcome = Returned(<< >>)]
         ELSE IF ocrCall.progressThrows = "loading"
         THEN [ocrRun EXCEPT !.pc = "done", !.outcome = Rejected(ProgressError)]
         ELSE [ocrRun EXCEPT !.pc = "load"]
    /\ UNCHANGED <<ocrCall, uuidCount, textVars, normVars, routerVars, extractVars, postVars,
                   lexVars>>

\* file.arrayBuffer() and getDocument settle; onProgress("Initializing OCR engine...").
OcrLoadPdf ==
    /\ ocrRun.pc = "load"
    /\ ocrRun' =
         IF ~ocrCall.pdfLoads
         THEN [ocrRun EXCEPT !.pc = "done", !.outcome = Rejected(<<"Invalid PDF structure.">>)]
         ELSE IF ocrCall.progressThrows = "initializing"
         THEN [ocrRun EXCEPT !.pc = "done", !.outcome = Rejected(ProgressError)]
         ELSE [ocrRun EXCEPT !.pc = "createWorker"]
    /\ UNCHANGED <<ocrCall, uuidCount, textVars, normVars, routerVars, extractVars, postVars,
                   lexVars>>

\* createWorker settles, inside the outer try.
OcrCreateWorker ==
    /\ ocrRun.pc = "createWorker"
    /\ ocrRun' =
         IF ~ocrCall.workerCreates
         THEN leaveTry(ocrRun, <<"createWorker rejected">>)
         ELSE [ocrRun EXCEPT !.pc = "render", !.worker = "live", !.created = @ + 1]
    /\ UNCHANGED <<ocrCall, uuidCount, textVars, normVars, routerVars, extractVars, postVars,
                   lexVars>>

\* One page up to its rendering: onProgress("Rendering page ...") outside the inner
\* try, then getPage, the 2d context and page.render inside it.
OcrRenderPage ==
    /\ ocrRun.pc = "render"
    /\ ocrRun.i < Len(ocrCall.ocrPages)
    /\ ocrRun' =
         IF ocrCall.progressThrows = "rendering" THEN leaveTry(ocrRun, ProgressError)
         ELSE IF ocrCall.pages[ocrRun.i + 1].kind
                    \in {"getPageRejects", "noContext", "renderRejects"}
         THEN nextPage(ocrRun)
         ELSE [ocrRun EXCEPT !.pc = "recognize"]
    /\ UNCHANGED <<ocrCall, uuidCount, textVars, normVars, routerVars, extractVars, postVars,
                   lexVars>>

\* The rest of the page, all inside the inner try: onProgress("OCR scanning page
\* ..."), canvas.toBlob, worker.recognize, and the chunk of a text that is not blank.
OcrRecognizePage ==
    /\ ocrRun.pc = "recognize"
    /\ ocrRun' =
         IF \/ ocrCall.progressThrows = "scanning"
            \/ ocrCall.pages[ocrRun.i + 1].kind \in {"noBlob", "recognizeRejects"}
            \/ Len(trim(ocrCall.pages[ocrRun.i + 1].text)) = 0
         THEN nextPage(ocrRun)
         ELSE nextPage([ocrRun EXCEPT !.chunks =
                           Append(@, OcrChunk(trim(ocrCall.pages[ocrRun.i + 1].text),
                                              ocrCall.ocrPages[ocrRun.i + 1]))])
    /\ UNCHANGED <<ocrCall, uuidCount, textVars, normVars, routerVars, extractVars, postVars,
                   lexVars>>

\* After the last page: onProgress("OCR complete"), the end of the outer try.
OcrComplete ==
    /\ ocrRun.pc = "render"
    /\ ocrRun.i = Len(ocrCall.ocrPages)
    /\ ocrRun' =
         IF ocrCall.progressThrows = "complete" THEN leaveTry(ocrRun, ProgressError)
         ELSE [ocrRun EXCEPT !.pc = "finally"]
    /\ UNCHANGED <<ocrCall, uuidCount, textVars, normVars, routerVars, extractVars, postVars,
                   lexVars>>

\* The finally block.
OcrFinally ==
    /\ ocrRun.pc = "finally"
    /\ ocrRun' = finallyBlock(ocrRun, ocrCall.terminateThrows)
    /\ UNCHANGED <<ocrCall, uuidCount, textVars, normVars, routerVars, extractVars, postVars,
                   lexVars>>

\* The call settles: the error that left the try is rethrown, or chunks is returned.
OcrSettle ==
    /\ ocrRun.pc = "settle"
    /\ ocrRun' = [ocrRun EXCEPT !.pc = "done",
                                !.outcome = IF ocrRun.pending # NoError
                                            THEN Rejected(ocrRun.pending)
                                            ELSE Returned(ocrRun.chunks)]
    /\ UNCHANGED <<ocrCall, uuidCount, textVars, normVars, routerVars, extractVars, postVars,
                   lexVars>>

NextOcrClient ==
    \/ OcrStart
    \/ OcrLoadPdf
    \/ OcrCreateWorker
    \/ OcrRenderPage
    \/ OcrRecognizePage
    \/ OcrComplete
    \/ OcrFinally
    \/ OcrSettle

SpecOcrClient == InitOcrClient /\ [][NextOcrClient]_vars

\* C20: in a call of ocrPdfPages the recognition worker is acquired at most once,
\* and once acquired it is terminated exactly once on every exit path (normal
\* completion, a page whose render or recognize call throws, an exception that
\* escapes the page loop) before the call returns or throws; an error thrown by
\* the termination itself is swallowed and never reaches the caller.
C20_WorkerTerminatedOnce ==
    ocrRun.called =>
        /\ ocrRun.created <= 1
        /\ ocrRun.terminated <= ocrRun.created
        /\ (ocrRun.worker = "null") = (ocrRun.created = 0)
        /\ ocrRun.pc \in {"settle", "done"} =>
              /\ ocrRun.terminated = ocrRun.created
              /\ ocrRun.worker # "live"
        /\ ocrRun.pc = "done" =>
              /\ ocrRun.outcome.called
              /\ ~ocrRun.outcome.ok => ocrRun.outcome.error # TerminateError
              /\ (ocrRun.created = 1 /\ ocrCall.progressThrows \notin {"rendering", "complete"})
                    => ocrRun.outcome.ok

\* A call whose first page's recognize threw and whose worker.terminate rejected
\* has returned the chunk of its second page, the worker terminated once.
C20_Witness ==
    /\ ocrRun.called /\ ocrRun.pc = "done"
    /\ ocrCall.terminateThrows
    /\ Len(ocrCall.pages) = 2
    /\ ocrCall.pages[1].kind = "recognizeRejects" /\ ocrCall.pages[2].kind = "text"
    /\ ocrRun.created = 1 /\ ocrRun.terminated = 1
    /\ ocrRun.outcome = Returned(<<OcrChunk(<<LetterA>>, 2)>>)

====
